---------------------------- MODULE Spec2Model ----------------------------
(***************************************************************************)
(* The integrated pipeline of src/main.go (demonstrateIntegrated):         *)
(* fetch goroutines (fetchWithTimeout) -> fetchedData -> processingWorker  *)
(* pool -> processedData -> outputPipeline -> done -> Stats.Print.         *)
(*                                                                         *)
(* Every goroutine is a process with a program counter; one action is one  *)
(* step that touches shared state (a channel, a WaitGroup, the mutex).     *)
(* Statements that touch only locals are folded into the step before them. *)
(* time.Sleep and time.After carry no upper bound in Go, so a sleeping     *)
(* goroutine and a pending timer are steps that may happen at any time.    *)
(***************************************************************************)
EXTENDS Integers, Sequences, FiniteSets

\* Number of entries of `sources` (main.go:340 has 5); the model's bound.
NumSources == 2

\* numWorkers (main.go:382).
numWorkers == 3

\* Largest worker count of the configurable pipeline (FairSpec); its channel
\* capacities range over 1..NumSources.
MaxWorkers == 3

Sources == 1..NumSources

\* rand.Intn(800) milliseconds (main.go:272): fetchTime is below this.
FetchTimeBound == 800

\* The timeout passed to fetchWithTimeout (main.go:359), in milliseconds.
Timeout == 1000

\* The fetch times tried under the clock: the extremes the code can draw,
\* and, beyond the code, one equal to the timeout and one above it.
Latencies == {0, FetchTimeBound - 1, Timeout, Timeout + 1}
Workers == 1..MaxWorkers

VARIABLES
    cfg,            \* [workers, capacity]: numWorkers and cap of both channels;
                    \* timed: whether sleeps and timers follow the clock
    now,            \* the clock, in milliseconds
    startAt,        \* per source: when its fetch was launched
    latency,        \* per source: fetchTime of the simulated fetch
    mainPc,         \* demonstrateIntegrated's position
    mainI,          \* its loop index (next source / worker to launch)
    fetchPc,        \* per source: position of the goroutine of main.go:355-367
    inner,          \* per source: the goroutine of main.go:271-280
    responseChan,   \* per source: buffer of responseChan (capacity 1)
    late,           \* sources whose response was sent after the deadline case
                    \* of their select was taken (history)
    timer,          \* per source: TRUE once time.After(timeout) has fired
    ret,            \* per source: what fetchWithTimeout returned
    incs,           \* per source: increments done by that invocation
    mu,             \* Stats.mu: TRUE when locked
    stats,          \* Stats: totalFetched, totalProcessed, errors
    fetchedData,    \* [buf, closed]
    processedData,  \* [buf, closed]
    fetchWg,        \* counter of fetchWg
    processWg,      \* counter of processWg
    fetchCloserPc,  \* goroutine of main.go:371-375
    procCloserPc,   \* goroutine of main.go:391-394
    workerPc,       \* per worker: position of processingWorker
    job,            \* per worker: Source of the job it holds (0: none)
    outPc,          \* outputPipeline's position
    count,          \* outputPipeline's count
    printed,        \* per source: results output for it
    shown,          \* what Stats.Print printed (<<>> before)
    closeCalls,     \* close() calls executed: [fetchedData, processedData]
    panicked,       \* "" or the run-time panic that ended the program
    \* Concurrent callers of the methods of one Stats (StatsSpec):
    callPc,         \* per caller: position inside the method it is calling
    callOp,         \* per caller: the method ("none" when idle)
    callsLeft,      \* per caller: calls it may still begin
    tmp,            \* per caller: the field value read by s.field++
    snap,           \* per caller: the fields Print has read so far
    calls,          \* per method: calls that have returned (history)
    mutations,      \* writes to a field of Stats so far (history)
    printLog,       \* the last two Prints that returned: what each
                    \* reported and the value of mutations then (history)
    \* The shared counter of solution8, exercise8 and demonstrateMutex:
    useMutex,       \* TRUE: counter++ under mu; FALSE: exercise8's broken code
    counter,        \* the shared counter
    counterMu,      \* mu: TRUE when locked
    counterWg,      \* counter of wg
    incPc,          \* per goroutine: its position
    incJ,           \* per goroutine: its loop index j
    incTmp,         \* per goroutine: the value counter++ has read
    cntMainPc,      \* position of the launching function
    cntMainI,       \* its loop index
    reported,       \* the value it printed (-1 before)
    performed,      \* executions of counter++ so far (history)
    stale,          \* those that wrote over a value they had not read (history)
    \* The parallel sum of solution5:
    sumPc,          \* per goroutine: position of calculateSum
    sumI,           \* per goroutine: its loop index i
    sum,            \* per goroutine: its sum
    s5MainPc,       \* position of solution5
    sum1,           \* first value received (-1 before)
    sum2,           \* second value received (-1 before)
    total,          \* sum1 + sum2 (-1 before)
    \* The cancellation of solution9, under a clock in milliseconds:
    s9Now,          \* the clock
    s9MainPc,       \* position of solution9
    s9MainWake,     \* when its current sleep ends
    s9WorkerPc,     \* position of the worker goroutine
    s9WorkerWake,   \* when its current sleep ends
    s9Cancelled,    \* TRUE once cancel() has closed ctx.Done()
    \* The jobs of demonstrateWorkerPool:
    poolPc,         \* per job: position of its goroutine (Worker.Process)
    poolWg,         \* counter of wg
    poolResults,    \* results: [buf, closed]
    poolCloserPc,   \* goroutine of main.go:93-96
    poolMainPc,     \* position of demonstrateWorkerPool
    poolI,          \* its loop index i
    poolPrinted,    \* number of results it has printed
    \* The tasks of semaphoreExample:
    semPc,          \* per task: position of semaphoreTask
    sem,            \* number of values in the buffer of sem
    semResults,     \* results: [buf, closed]
    semWg,          \* counter of wg
    semCloserPc,    \* goroutine of 03_advanced_goroutine.go:266-269
    semMainPc,      \* position of semaphoreExample
    semI,           \* its loop index i
    semPrinted,     \* number of results it has printed
    \* One ErrorGroup and the functions started with Go:
    egPc,           \* per function: position of the goroutine of Go
    egOutcome,      \* per function: what f returned ("none" before)
    egWg,           \* counter of eg.wg
    egMu,           \* eg.mu: TRUE when locked
    egErrors,       \* eg.errors: the functions whose error it holds, in order
    egTmp,          \* per function: the slice append has read
    egMainPc,       \* position of the caller of Go and Wait
    egI,            \* number of calls of Go so far, plus one
    egReturned,     \* what Wait returned
    \* The workers of contextCancellationExample:
    cwPc,           \* per worker: position of cancellableWorker
    ctxDone,        \* TRUE once cancel() has closed ctx.Done()
    cwResults,      \* results: [buf, closed]
    cwMainPc,       \* position of contextCancellationExample
    cwI,            \* its loop index i
    cwReceived,     \* number of messages it has received
    cwSent,         \* per worker: messages it has sent (history)
    \* The tasks of contextTimeoutExample, under a clock in milliseconds:
    ctNow,          \* the clock
    ctDeadline,     \* when ctx.Done() is closed
    ctPc,           \* per task: position of its goroutine
    ctTimerAt,      \* per task: when its time.After(duration) fires
    ctOutcome,      \* per task: what taskWithTimeout returned ("none" before)
    ctReturns,      \* per task: how often it has returned (history)
    ctWg,           \* counter of wg
    ctMainPc,       \* position of contextTimeoutExample
    ctI,            \* its loop index
    \* The producer, workers and collector of fanInFanOutExample:
    fanProdPc,      \* position of producer
    fanProdI,       \* its loop index i
    fanInputClosed, \* TRUE once input is closed
    fanPc,          \* per worker: position of fanOutWorker
    fanResult,      \* per worker: the result it is about to send
    fanWg,          \* counter of wg
    fanOutputClosed, \* TRUE once output is closed
    fanCloserPc,    \* goroutine of 03_advanced_goroutine.go:112-115
    fanMainPc,      \* position of fanInFanOutExample
    fanI,           \* its loop index w
    fanSum,         \* its sum
    fanSquared,     \* per number: how often a worker has squared it (history)
    \* The fixed-size worker pool of workerPoolExample (and, line for line, of
    \* solution6 and pipelineExample):
    wpJobs,         \* channel jobs: [buf, closed]
    wpResults,      \* channel results: [buf, closed]
    wpPc,           \* per worker: position of workerPool
    wpJob,          \* per worker: the job it holds
    wpWg,           \* counter of wg
    wpCloserPc,     \* goroutine of 03_advanced_goroutine.go:62-65
    wpMainPc,       \* position of workerPoolExample
    wpI,            \* its loop index (w, then j)
    wpProcessed,    \* per job: how often a worker has taken it (history)
    wpGot,          \* per job: how often the collector has received its result (history)
    \* The linear pipelines demonstratePipeline and solution10, one
    \* entry per program:
    plPc,           \* per goroutine (0: the sender, k: stage k): its position
    plVal,          \* per stage: the result it is about to send
    plClosed,       \* the closed channels (0: input of stage 1, k: output of stage k)
    plI,            \* loop index i of the sender
    plMainPc,       \* position of the function itself
    plLaunched,     \* number of go statements it has executed
    plOut,          \* the results the final consumer has received, in order (history)
    \* The select demos demonstrateSelect, selectExample and solution7, under a
    \* clock in milliseconds, one entry per program:
    selNow,         \* the clock
    selPc,          \* per sender: position of its goroutine
    selWake,        \* per sender: when its time.Sleep returns
    selMainPc,      \* position of the function itself
    selLaunched,    \* number of go statements it has executed
    selI,           \* its loop index i
    selTimerAt,     \* when the time.After of its select fires
    selLog,         \* the branches its select has taken, in order (history)
    selLate         \* TRUE once a sender was resumed late (history)

vars == <<cfg, now, startAt, latency, mainPc, mainI, fetchPc, inner, late, responseChan, timer, ret, incs,
          mu, stats, fetchedData, processedData, fetchWg, processWg,
          fetchCloserPc, procCloserPc, workerPc, job, outPc, count, printed,
          shown, closeCalls, panicked,
          callPc, callOp, callsLeft, tmp, snap, calls, mutations, printLog,
          useMutex, counter, counterMu, counterWg, incPc, incJ, incTmp,
          cntMainPc, cntMainI, reported, performed, stale,
          sumPc, sumI, sum, s5MainPc, sum1, sum2, total,
          s9Now, s9MainPc, s9MainWake, s9WorkerPc, s9WorkerWake, s9Cancelled,
          poolPc, poolWg, poolResults, poolCloserPc, poolMainPc, poolI, poolPrinted,
          semPc, sem, semResults, semWg, semCloserPc, semMainPc, semI, semPrinted,
          egPc, egOutcome, egWg, egMu, egErrors, egTmp, egMainPc, egI, egReturned,
          cwPc, ctxDone, cwResults, cwMainPc, cwI, cwReceived, cwSent,
          ctNow, ctDeadline, ctPc, ctTimerAt, ctOutcome, ctReturns, ctWg, ctMainPc, ctI,
          fanProdPc, fanProdI, fanInputClosed, fanPc, fanResult, fanWg, fanOutputClosed, fanCloserPc, fanMainPc, fanI, fanSum, fanSquared,
          wpJobs, wpResults, wpPc, wpJob, wpWg, wpCloserPc, wpMainPc, wpI, wpProcessed, wpGot,
          plPc, plVal, plClosed, plI, plMainPc, plLaunched, plOut,
          selNow, selPc, selWake, selMainPc, selLaunched, selI, selTimerAt, selLog,
          selLate>>

fetchVars == <<fetchPc, inner, late, responseChan, timer, ret, incs>>
chanVars == <<fetchedData, processedData, closeCalls>>
wgVars == <<fetchWg, processWg>>
workerVars == <<workerPc, job>>
outVars == <<outPc, count, printed>>
mainVars == <<mainPc, mainI, shown>>
closerVars == <<fetchCloserPc, procCloserPc>>
harnessVars == <<callPc, callOp, callsLeft, tmp, snap, calls, mutations, printLog>>
timeVars == <<now, startAt, latency>>
pipelineVars == <<cfg, timeVars, mainVars, fetchVars, chanVars, wgVars, workerVars,
                  outVars, closerVars, panicked>>
integratedVars == <<pipelineVars, harnessVars, mu, stats>>

counterVars == <<useMutex, counter, counterMu, counterWg, incPc, incJ, incTmp,
                 cntMainPc, cntMainI, reported, performed, stale>>

sumVars == <<sumPc, sumI, sum, s5MainPc, sum1, sum2, total>>

s9Vars == <<s9Now, s9MainPc, s9MainWake, s9WorkerPc, s9WorkerWake, s9Cancelled>>

poolVars == <<poolPc, poolWg, poolResults, poolCloserPc, poolMainPc, poolI, poolPrinted>>

semVars == <<semPc, sem, semResults, semWg, semCloserPc, semMainPc, semI, semPrinted>>

egVars == <<egPc, egOutcome, egWg, egMu, egErrors, egTmp, egMainPc, egI, egReturned>>

cancelVars == <<cwPc, ctxDone, cwResults, cwMainPc, cwI, cwReceived, cwSent>>

timeoutVars == <<ctNow, ctDeadline, ctPc, ctTimerAt, ctOutcome, ctReturns, ctWg, ctMainPc, ctI>>

fanVars == <<fanProdPc, fanProdI, fanInputClosed, fanPc, fanResult, fanWg, fanOutputClosed, fanCloserPc, fanMainPc, fanI, fanSum, fanSquared>>

wpVars == <<wpJobs, wpResults, wpPc, wpJob, wpWg, wpCloserPc, wpMainPc, wpI, wpProcessed, wpGot>>

plVars == <<plPc, plVal, plClosed, plI, plMainPc, plLaunched, plOut>>

selVars == <<selNow, selPc, selWake, selMainPc, selLaunched, selI, selTimerAt, selLog,
          selLate>>

\* The state of the other programs of the repository, which the integrated
\* pipeline never touches.
demoVars == <<counterVars, sumVars, s9Vars, poolVars, semVars, egVars, cancelVars, timeoutVars, fanVars, wpVars, plVars, selVars>>

\* What the steps of program d leave alone: the integrated pipeline and the
\* other programs.
FrameOf(d) ==
    /\ UNCHANGED integratedVars
    /\ IF d # "counter" THEN UNCHANGED counterVars ELSE TRUE
    /\ IF d # "sum" THEN UNCHANGED sumVars ELSE TRUE
    /\ IF d # "solution9" THEN UNCHANGED s9Vars ELSE TRUE
    /\ IF d # "pool" THEN UNCHANGED poolVars ELSE TRUE
    /\ IF d # "sem" THEN UNCHANGED semVars ELSE TRUE
    /\ IF d # "eg" THEN UNCHANGED egVars ELSE TRUE
    /\ IF d # "cancel" THEN UNCHANGED cancelVars ELSE TRUE
    /\ IF d # "timeout" THEN UNCHANGED timeoutVars ELSE TRUE
    /\ IF d # "fan" THEN UNCHANGED fanVars ELSE TRUE
    /\ IF d # "wp" THEN UNCHANGED wpVars ELSE TRUE
    /\ IF d # "pl" THEN UNCHANGED plVars ELSE TRUE
    /\ IF d # "sel" THEN UNCHANGED selVars ELSE TRUE

\* Number of goroutines calling the methods of Stats concurrently, and the
\* number of calls each makes.
NumCallers == 2

MaxCalls == 2

Callers == 1..NumCallers

\* Goroutines incrementing the shared counter (10 in solutions.go:263, 3 in
\* main.go:143) and increments each makes (1000 in solutions.go:267, 200 in
\* main.go:147).
NumIncrementers == 2

Iterations == 2

Incrementers == 1..NumIncrementers

Methods == {"IncrementFetched", "IncrementProcessed", "IncrementErrors", "Print"}

-----------------------------------------------------------------------------
(* Channels: make(chan T, n), send, receive, close.                        *)

MakeChan == [buf |-> <<>>, closed |-> FALSE]

\* A send proceeds (or panics) unless the buffer is full and the channel open.
CanSend(ch) == ch.closed \/ Len(ch.buf) < cfg.capacity

\* Go panics on a send to a closed channel.
SendPanics(ch) == ch.closed

Send(ch, v) == [ch EXCEPT !.buf = Append(@, v)]

CanRecv(ch) == Len(ch.buf) > 0

\* Faulty variant: the loop ends as soon as the channel is closed.
EndOfStream_NoDrain(ch) == ch.closed

\* for-range ends when the channel is closed and drained.
EndOfStream(ch) == ch.closed /\ Len(ch.buf) = 0

\* Faulty variant: the received item stays in the buffer.
Recv_Peek(ch) == ch

Recv(ch) == [ch EXCEPT !.buf = Tail(@)]

\* Faulty variant: the channel is never marked closed.
Close_Noop(ch) == ch

Close(ch) == [ch EXCEPT !.closed = TRUE]

-----------------------------------------------------------------------------
(* Stats (main.go:232-263).                                                *)

NewStats == [totalFetched |-> 0, totalProcessed |-> 0, errors |-> 0]

\* Faulty variant: the increment is lost.
IncrementFetched_Lost(s) == s

IncrementFetched(s) == [s EXCEPT !.totalFetched = @ + 1]

IncrementProcessed(s) == [s EXCEPT !.totalProcessed = @ + 1]

\* Faulty variant: the increment is lost.
IncrementErrors_Lost(s) == s

\* Faulty variant: the error is counted twice.
IncrementErrors_Twice(s) == [s EXCEPT !.errors = @ + 2]

IncrementErrors(s) == [s EXCEPT !.errors = @ + 1]

\* Faulty variant: printing resets the counters.
AfterPrint_Reset(s) == NewStats

\* Stats after the Printf of Print (main.go:260-262), which only reads.
AfterPrint(s) == s

\* The field a method increments, and the method applied to a Stats value.
FieldOf(m) ==
    CASE m = "IncrementFetched" -> "totalFetched"
      [] m = "IncrementProcessed" -> "totalProcessed"
      [] m = "IncrementErrors" -> "errors"

Apply(m, s) ==
    CASE m = "IncrementFetched" -> IncrementFetched(s)
      [] m = "IncrementProcessed" -> IncrementProcessed(s)
      [] m = "IncrementErrors" -> IncrementErrors(s)

\* The increments of totalFetched and errors between two values of Stats,
\* added to the tally c of one invocation (history).
Counted(c, old, new) ==
    [fetched |-> c.fetched + new.totalFetched - old.totalFetched,
     errors |-> c.errors + new.errors - old.errors]

\* A panic ends the program: no goroutine takes another step.
Running == panicked = ""

\* Faulty variant: Lock does not wait for the mutex to be free.
Lock_Unguarded == mu' = TRUE

\* s.mu.Lock(): blocks while the mutex is held.
Lock == ~mu /\ mu' = TRUE

\* the deferred s.mu.Unlock()
Unlock == mu' = FALSE

-----------------------------------------------------------------------------
(* sync.WaitGroup: the counter.                                            *)

\* Faulty variant: the goroutine is launched without wg.Add(1).
WgAdd_Missing(n) == n

\* wg.Add(1)
WgAdd(n) == n + 1

\* wg.Done() panics when the counter would go below zero.
WgDonePanics(n) == n = 0

WgDone(n) == n - 1

-----------------------------------------------------------------------------
\* The state when demonstrateIntegrated has made its channels (main.go:337-345).
InitPipeline ==
    /\ now = 0
    /\ startAt = [s \in Sources |-> 0]
    /\ latency = [s \in Sources |-> 0]
    /\ mainPc = "launchFetch"
    /\ mainI = 1
    /\ fetchPc = [s \in Sources |-> "unborn"]
    /\ inner = [s \in Sources |-> "unborn"]
    /\ late = {}
    /\ responseChan = [s \in Sources |-> <<>>]
    /\ timer = [s \in Sources |-> FALSE]
    /\ ret = [s \in Sources |-> "none"]
    /\ incs = [s \in Sources |-> [fetched |-> 0, errors |-> 0]]
    /\ mu = FALSE
    /\ stats = NewStats
    /\ fetchedData = MakeChan
    /\ processedData = MakeChan
    /\ fetchWg = 0
    /\ processWg = 0
    /\ fetchCloserPc = "unborn"
    /\ procCloserPc = "unborn"
    /\ workerPc = [w \in Workers |-> "unborn"]
    /\ job = [w \in Workers |-> 0]
    /\ outPc = "unborn"
    /\ count = 0
    /\ printed = [s \in Sources |-> 0]
    /\ shown = <<>>
    /\ closeCalls = [fetchedData |-> 0, processedData |-> 0]
    /\ panicked = ""

\* Callers of Stats with a budget of n calls each, none begun.
InitCallers(n) ==
    /\ callPc = [c \in Callers |-> "idle"]
    /\ callOp = [c \in Callers |-> "none"]
    /\ callsLeft = [c \in Callers |-> n]
    /\ tmp = [c \in Callers |-> 0]
    /\ snap = [c \in Callers |-> <<>>]
    /\ calls = [m \in Methods |-> 0]
    /\ mutations = 0
    /\ printLog = <<>>

\* The configuration of the code: main.go:343-344 and 382.
\* The shared counter before the launching function starts its goroutines
\* (solutions.go:259-261, main.go:138-140); U: the variants considered.
InitCounter(U) ==
    /\ useMutex \in U
    /\ counter = 0
    /\ counterMu = FALSE
    /\ counterWg = 0
    /\ incPc = [g \in Incrementers |-> "unborn"]
    /\ incJ = [g \in Incrementers |-> 0]
    /\ incTmp = [g \in Incrementers |-> 0]
    /\ cntMainPc = "launch"
    /\ cntMainI = 1
    /\ reported = -1
    /\ performed = 0
    /\ stale = 0

\* solutions.go:145-146: the arguments of the two calls of calculateSum.
SumRange == <<[start |-> 1, end |-> 50], [start |-> 51, end |-> 100]>>

Summers == 1..Len(SumRange)

\* solutions.go:133: solution5 has made ch and started no goroutine.
InitSum ==
    /\ sumPc = [g \in Summers |-> "unborn"]
    /\ sumI = [g \in Summers |-> 0]
    /\ sum = [g \in Summers |-> 0]
    /\ s5MainPc = "launch"
    /\ sum1 = -1
    /\ sum2 = -1
    /\ total = -1

\* solutions.go:304: the worker's sleep per iteration, in milliseconds.
WorkPause == 200

\* solutions.go:310: how long solution9 lets the worker run.
RunTime == 1000

\* solutions.go:317: how long solution9 sleeps after cancel().
GraceTime == 100

\* time.Sleep pauses for at least its duration: the most a sleep takes
\* longer, in milliseconds.
MaxJitter == 1

\* solutions.go:293: the context is made; nothing runs yet.
InitSolution9 ==
    /\ s9Now = 0
    /\ s9MainPc = "launch"
    /\ s9MainWake = 0
    /\ s9WorkerPc = "unborn"
    /\ s9WorkerWake = 0
    /\ s9Cancelled = FALSE

\* numWorkers of demonstrateWorkerPool (main.go:79).
poolNumWorkers == 5

\* numJobs (main.go:80 has 15); the model's bound.
NumJobs == 6

Jobs == 1..NumJobs

\* main.go:79-83: results is made; no goroutine runs yet.
InitPool ==
    /\ poolPc = [j \in Jobs |-> "unborn"]
    /\ poolWg = 0
    /\ poolResults = MakeChan
    /\ poolCloserPc = "unborn"
    /\ poolMainPc = "launch"
    /\ poolI = 1
    /\ poolPrinted = 0

\* maxConcurrent (03_advanced_goroutine.go:253).
maxConcurrent == 2

\* Tasks of semaphoreExample (03_advanced_goroutine.go:260 has 5, and room
\* for as many results at line 255); the model's bound.
NumTasks == 4

Tasks == 1..NumTasks

\* 03_advanced_goroutine.go:253-257: sem and results are made, both empty.
InitSem ==
    /\ semPc = [k \in Tasks |-> "unborn"]
    /\ sem = 0
    /\ semResults = MakeChan
    /\ semWg = 0
    /\ semCloserPc = "unborn"
    /\ semMainPc = "launch"
    /\ semI = 1
    /\ semPrinted = 0

\* Functions started with Go (errorGroupExample starts 3, of which one
\* fails, 03_advanced_goroutine.go:307-323); the model's bound.
NumFuncs == 3

Funcs == 1..NumFuncs

\* 03_advanced_goroutine.go:304: var eg ErrorGroup, the zero value.
InitEg ==
    /\ egPc = [f \in Funcs |-> "unborn"]
    /\ egOutcome = [f \in Funcs |-> "none"]
    /\ egWg = 0
    /\ egMu = FALSE
    /\ egErrors = <<>>
    /\ egTmp = [f \in Funcs |-> <<>>]
    /\ egMainPc = "go"
    /\ egI = 1
    /\ egReturned = <<>>

\* Workers of contextCancellationExample (03_advanced_goroutine.go:150);
\* results has room for as many messages (line 147) and as many are
\* received (line 162).
numCancellable == 3

CancelWorkers == 1..numCancellable

\* 03_advanced_goroutine.go:146-147: the context and results are made.
InitCancel ==
    /\ cwPc = [w \in CancelWorkers |-> "unborn"]
    /\ ctxDone = FALSE
    /\ cwResults = MakeChan
    /\ cwMainPc = "launch"
    /\ cwI = 1
    /\ cwReceived = 0
    /\ cwSent = [w \in CancelWorkers |-> 0]

\* 03_advanced_goroutine.go:184: the timeout of the context, in milliseconds.
CtxTimeout == 300

\* 03_advanced_goroutine.go:188: the durations of the tasks.
TaskDurations == <<100, 200, 400>>

TimedTasks == 1..Len(TaskDurations)

\* 03_advanced_goroutine.go:184: the context is made at time 0; its timer
\* fires after the timeout, or up to MaxJitter later.
InitTimeout ==
    /\ ctNow = 0
    /\ ctDeadline \in {CtxTimeout + j : j \in 0..MaxJitter}
    /\ ctPc = [k \in TimedTasks |-> "unborn"]
    /\ ctTimerAt = [k \in TimedTasks |-> 0]
    /\ ctOutcome = [k \in TimedTasks |-> "none"]
    /\ ctReturns = [k \in TimedTasks |-> 0]
    /\ ctWg = 0
    /\ ctMainPc = "launch"
    /\ ctI = 1

\* 03_advanced_goroutine.go:102: the producer sends 1..fanCount.
fanCount == 10

\* numWorkers of fanInFanOutExample (03_advanced_goroutine.go:105).
fanNumWorkers == 3

FanWorkers == 1..fanNumWorkers

FanNumbers == 1..fanCount

\* 03_advanced_goroutine.go:96-99: input and output are made, unbuffered.
InitFan ==
    /\ fanProdPc = "unborn"
    /\ fanProdI = 0
    /\ fanInputClosed = FALSE
    /\ fanPc = [w \in FanWorkers |-> "unborn"]
    /\ fanResult = [w \in FanWorkers |-> 0]
    /\ fanWg = 0
    /\ fanOutputClosed = FALSE
    /\ fanCloserPc = "unborn"
    /\ fanMainPc = "launchProducer"
    /\ fanI = 1
    /\ fanSum = 0
    /\ fanSquared = [n \in FanNumbers |-> 0]

\* numWorkers of workerPoolExample (03_advanced_goroutine.go:40; solutions.go:169;
\* main.go:573).
wpNumWorkers == 3

\* numJobs of workerPoolExample; the code has 10 (03_advanced_goroutine.go:41).
wpNumJobs == 4

WpWorkers == 1..wpNumWorkers

WpJobs == 1..wpNumJobs

\* Faulty variant: channels that hold one element less than there are jobs.
WpCap_Short == wpNumJobs - 1

\* 03_advanced_goroutine.go:43-44: make(chan Job, numJobs), make(chan Result, numJobs)
WpCap == wpNumJobs

\* 03_advanced_goroutine.go:40-46
InitWp ==
    /\ wpJobs = MakeChan
    /\ wpResults = MakeChan
    /\ wpPc = [w \in WpWorkers |-> "unborn"]
    /\ wpJob = [w \in WpWorkers |-> 0]
    /\ wpWg = 0
    /\ wpCloserPc = "unborn"
    /\ wpMainPc = "launchWorkers"
    /\ wpI = 1
    /\ wpProcessed = [j \in WpJobs |-> 0]
    /\ wpGot = [j \in WpJobs |-> 0]

Pipelines == {"demonstratePipeline", "solution10"}

\* main.go:169: the sender of demonstratePipeline sends 1..5.
pipelineCount == 5

\* solutions.go:331: generator sends 1..10.
solution10Count == 10

PlCount(p) == IF p = "demonstratePipeline" THEN pipelineCount ELSE solution10Count

\* main.go:164-165: pipelineStage1 and pipelineStage2; solutions.go:359: squarer.
PlNumStages(p) == IF p = "demonstratePipeline" THEN 2 ELSE 1

PlGoroutines(p) == 0..PlNumStages(p)

PlStages(p) == 1..PlNumStages(p)

\* The go statements in program order (main.go:164-168; solutions.go:358-359).
PlLaunches(p) == IF p = "demonstratePipeline" THEN <<1, 2, 0>> ELSE <<0, 1>>

\* A stage that has received nothing yet: an int for stage 1, a formatted
\* string for stage 2.
PlNoValue(k) == IF k = 1 THEN 0 ELSE <<"", 0>>

\* main.go:159-161; solutions.go:354-355: the channels are made, unbuffered.
InitPl ==
    /\ plPc = [p \in Pipelines |-> [g \in PlGoroutines(p) |-> "unborn"]]
    /\ plVal = [p \in Pipelines |-> [k \in PlStages(p) |-> PlNoValue(k)]]
    /\ plClosed = [p \in Pipelines |-> {}]
    /\ plI = [p \in Pipelines |-> 1]
    /\ plMainPc = [p \in Pipelines |-> "launch"]
    /\ plLaunched = [p \in Pipelines |-> 0]
    /\ plOut = [p \in Pipelines |-> <<>>]

Selects == {"demonstrateSelect", "selectExample", "solution7"}

\* The two senders of a program: sender c sends on the c-th channel.
SelSenders == {1, 2}

\* main.go:190, 195; main.go:606, 611; solutions.go:227, 233: time.Sleep of
\* sender c.
SelDelay(p, c) ==
    IF p = "demonstrateSelect"
    THEN (IF c = 1 THEN 300 ELSE 200)
    ELSE (IF c = 1 THEN 100 ELSE 200)

\* Faulty variant: a timeout shorter than the delays.
SelTimeout_Short(p) == SelDelay(p, 2) - 150

\* main.go:206; main.go:622; solutions.go:244: time.After of the select.
SelTimeout(p) ==
    IF p = "demonstrateSelect" THEN 1000
    ELSE IF p = "selectExample" THEN 500
    ELSE 2000

\* By how much the runtime resumes a sleeping sender after its delay: by up
\* to MaxJitter, or, on a loaded machine, by as much as the timeout.
SelLateness(p) == (0..MaxJitter) \cup {SelTimeout(p)}

\* main.go:185-186; main.go:601-602; solutions.go:222-223: the channels are
\* made, unbuffered.
InitSel ==
    /\ selNow = 0
    /\ selPc = [p \in Selects |-> [c \in SelSenders |-> "unborn"]]
    /\ selWake = [p \in Selects |-> [c \in SelSenders |-> 0]]
    /\ selMainPc = [p \in Selects |-> "launch"]
    /\ selLaunched = [p \in Selects |-> 0]
    /\ selI = [p \in Selects |-> 0]
    /\ selTimerAt = [p \in Selects |-> 0]
    /\ selLog = [p \in Selects |-> <<>>]
    /\ selLate = [p \in Selects |-> FALSE]

\* Every program but d before it starts.
InitDemosBut(d) ==
    /\ IF d # "counter" THEN InitCounter({TRUE}) ELSE TRUE
    /\ IF d # "sum" THEN InitSum ELSE TRUE
    /\ IF d # "solution9" THEN InitSolution9 ELSE TRUE
    /\ IF d # "pool" THEN InitPool ELSE TRUE
    /\ IF d # "sem" THEN InitSem ELSE TRUE
    /\ IF d # "eg" THEN InitEg ELSE TRUE
    /\ IF d # "cancel" THEN InitCancel ELSE TRUE
    /\ IF d # "timeout" THEN InitTimeout /\ ctDeadline = CtxTimeout ELSE TRUE
    /\ IF d # "fan" THEN InitFan ELSE TRUE
    /\ IF d # "wp" THEN InitWp ELSE TRUE
    /\ IF d # "pl" THEN InitPl ELSE TRUE
    /\ IF d # "sel" THEN InitSel ELSE TRUE

InitDemos == InitDemosBut("none")

\* The integrated pipeline as the code configures it, before it starts.
InitIntegrated ==
    /\ cfg = [workers |-> numWorkers, capacity |-> NumSources, timed |-> FALSE]
    /\ InitPipeline
    /\ InitCallers(0)

Init ==
    /\ InitIntegrated
    /\ InitDemos

\* The pipeline with the worker count and the channels' capacity as parameters.
InitAnyConfig ==
    /\ cfg \in [workers : 1..MaxWorkers, capacity : 1..NumSources,
                timed : {FALSE}]
    /\ InitPipeline
    /\ InitCallers(0)
    /\ InitDemos


\* main.go:272: the fetch times the simulated fetch may draw. Without the
\* clock a sleep may take any time, and its length is not recorded.
LatencyChoices == IF cfg.timed THEN Latencies ELSE {0}

\* Faulty variant: the sleep may return before fetchTime has passed.
InnerDue_Anytime(s) == TRUE

\* main.go:273: time.Sleep(fetchTime) is over.
InnerDue(s) == cfg.timed => now >= startAt[s] + latency[s]

\* Faulty variant: the timer may fire before the timeout has passed.
TimerDue_Anytime(s) == TRUE

\* main.go:290: the timer of time.After(timeout) is due.
TimerDue(s) == cfg.timed => now >= startAt[s] + Timeout

-----------------------------------------------------------------------------
(* demonstrateIntegrated (main.go:331-415), the launching goroutine.       *)

\* main.go:353-368: fetchWg.Add(1); go func(src). The new goroutine calls
\* fetchWithTimeout, which makes its channels, starts the simulated fetch
\* (main.go:271) and arrives at the select (main.go:283).
Main_LaunchFetch ==
    /\ Running
    /\ mainPc = "launchFetch"
    /\ mainI <= NumSources
    /\ fetchWg' = WgAdd(fetchWg)
    /\ fetchPc' = [fetchPc EXCEPT ![mainI] = "select"]
    /\ inner' = [inner EXCEPT ![mainI] = "sleeping"]
    /\ startAt' = [startAt EXCEPT ![mainI] = now]
    /\ \E l \in LatencyChoices : latency' = [latency EXCEPT ![mainI] = l]
    /\ mainI' = mainI + 1
    /\ UNCHANGED <<demoVars, harnessVars, now, cfg, mainPc, shown, late, responseChan, timer, ret, incs, mu,
                   stats, chanVars, processWg, closerVars, workerVars, outVars,
                   panicked>>

\* main.go:371: go func() { fetchWg.Wait(); close(fetchedData) }()
Main_LaunchFetchCloser ==
    /\ Running
    /\ mainPc = "launchFetch"
    /\ mainI > NumSources
    /\ fetchCloserPc' = "wait"
    /\ mainPc' = "launchWorker"
    /\ mainI' = 1
    /\ UNCHANGED <<demoVars, harnessVars, timeVars, cfg, shown, fetchVars, mu, stats, chanVars, wgVars,
                   procCloserPc, workerVars, outVars, panicked>>

\* Faulty variant: the loop starts as many workers as there can be.
MoreToLaunch_All == mainI <= MaxWorkers

\* main.go:385: the loop condition w <= numWorkers
MoreToLaunch == mainI <= cfg.workers

\* main.go:385-388: processWg.Add(1); go processingWorker(w, ...)
Main_LaunchWorker ==
    /\ Running
    /\ mainPc = "launchWorker"
    /\ MoreToLaunch
    /\ processWg' = WgAdd(processWg)
    /\ workerPc' = [workerPc EXCEPT ![mainI] = "range"]
    /\ mainI' = mainI + 1
    /\ UNCHANGED <<demoVars, harnessVars, timeVars, cfg, mainPc, shown, fetchVars, mu, stats, chanVars, fetchWg,
                   closerVars, job, outVars, panicked>>

\* main.go:391: go func() { processWg.Wait(); close(processedData) }()
Main_LaunchProcCloser ==
    /\ Running
    /\ mainPc = "launchWorker"
    /\ ~MoreToLaunch
    /\ procCloserPc' = "wait"
    /\ mainPc' = "launchOutput"
    /\ UNCHANGED <<demoVars, harnessVars, timeVars, cfg, mainI, shown, fetchVars, mu, stats, chanVars, wgVars,
                   fetchCloserPc, workerVars, outVars, panicked>>

\* main.go:399: go outputPipeline(processedData, done)
Main_LaunchOutput ==
    /\ Running
    /\ mainPc = "launchOutput"
    /\ outPc' = "range"
    /\ mainPc' = "recvDone"
    /\ UNCHANGED <<demoVars, harnessVars, timeVars, cfg, mainI, shown, fetchVars, mu, stats, chanVars, wgVars,
                   closerVars, workerVars, count, printed, panicked>>

\* main.go:405 and 258: stats.Print() takes the mutex
Main_PrintLock ==
    /\ Running
    /\ mainPc = "printLock"
    /\ Lock
    /\ mainPc' = "print"
    /\ UNCHANGED <<demoVars, harnessVars, timeVars, cfg, mainI, shown, fetchVars, stats, chanVars, wgVars,
                   closerVars, workerVars, outVars, panicked>>

\* main.go:260-263: the three fields are printed, the mutex is released
Main_Print ==
    /\ Running
    /\ mainPc = "print"
    /\ shown' = <<stats.totalFetched, stats.totalProcessed, stats.errors>>
    /\ stats' = AfterPrint(stats)
    /\ Unlock
    /\ mainPc' = "returned"
    /\ UNCHANGED <<demoVars, harnessVars, timeVars, cfg, mainI, fetchVars, chanVars, wgVars,
                   closerVars, workerVars, outVars, panicked>>

-----------------------------------------------------------------------------
(* fetchWithTimeout (main.go:266-294) and its caller (main.go:355-367).    *)

\* The select of source s has taken its deadline case.
TookDeadline(s) == fetchPc[s] \in {"errorsLock", "errorsInc"} \/ ret[s] = "error"

\* main.go:272-279: the simulated fetch wakes up and sends its response;
\* responseChan has capacity 1 and one sender, so the send never blocks.
Inner_Send(s) ==
    /\ Running
    /\ inner[s] = "sleeping"
    /\ InnerDue(s)
    /\ responseChan' = [responseChan EXCEPT ![s] = Append(@, s)]
    /\ inner' = [inner EXCEPT ![s] = "exited"]
    /\ late' = IF TookDeadline(s) THEN late \cup {s} ELSE late
    /\ UNCHANGED <<demoVars, harnessVars, timeVars, cfg, mainVars, fetchPc, timer, ret, incs, mu, stats, chanVars,
                   wgVars, closerVars, workerVars, outVars, panicked>>

\* main.go:290: the channel of time.After(timeout) becomes ready
Timer_Fire(s) ==
    /\ Running
    /\ fetchPc[s] = "select"
    /\ ~timer[s]
    /\ TimerDue(s)
    /\ timer' = [timer EXCEPT ![s] = TRUE]
    /\ UNCHANGED <<demoVars, harnessVars, timeVars, cfg, mainVars, fetchPc, inner, late, responseChan, ret, incs, mu,
                   stats, chanVars, wgVars, closerVars, workerVars, outVars,
                   panicked>>

\* Faulty variant: the deadline case waits again instead of returning.
AfterTimeout_Retry == "select"

\* Where the select goes on its timeout case.
AfterTimeout == "errorsLock"

\* main.go:284: case response := <-responseChan
Select_Response(s) ==
    /\ Running
    /\ fetchPc[s] = "select"
    /\ Len(responseChan[s]) > 0
    /\ responseChan' = [responseChan EXCEPT ![s] = Tail(@)]
    /\ fetchPc' = [fetchPc EXCEPT ![s] = "fetchedLock"]
    /\ UNCHANGED <<demoVars, harnessVars, timeVars, cfg, mainVars, inner, late, timer, ret, incs, mu, stats, chanVars,
                   wgVars, closerVars, workerVars, outVars, panicked>>

\* main.go:290: case <-time.After(timeout). (The case of main.go:287 is
\* never ready: nothing sends on errorChan.)
Select_Timeout(s) ==
    /\ Running
    /\ fetchPc[s] = "select"
    /\ timer[s]
    /\ fetchPc' = [fetchPc EXCEPT ![s] = AfterTimeout]
    /\ UNCHANGED <<demoVars, harnessVars, timeVars, cfg, mainVars, inner, late, responseChan, timer, ret, incs, mu, stats,
                   chanVars, wgVars, closerVars, workerVars, outVars, panicked>>

\* main.go:285 and 240: stats.IncrementFetched() takes the mutex
Fetch_FetchedLock(s) ==
    /\ Running
    /\ fetchPc[s] = "fetchedLock"
    /\ Lock
    /\ fetchPc' = [fetchPc EXCEPT ![s] = "fetchedInc"]
    /\ UNCHANGED <<demoVars, harnessVars, timeVars, cfg, mainVars, inner, late, responseChan, timer, ret, incs, stats,
                   chanVars, wgVars, closerVars, workerVars, outVars, panicked>>

\* main.go:242, 241, 286: totalFetched++, unlock, return response, nil
Fetch_FetchedInc(s) ==
    /\ Running
    /\ fetchPc[s] = "fetchedInc"
    /\ stats' = IncrementFetched(stats)
    /\ incs' = [incs EXCEPT ![s] = Counted(@, stats, stats')]
    /\ Unlock
    /\ ret' = [ret EXCEPT ![s] = "response"]
    /\ fetchPc' = [fetchPc EXCEPT ![s] = "send"]
    /\ UNCHANGED <<demoVars, harnessVars, timeVars, cfg, mainVars, inner, late, responseChan, timer, chanVars, wgVars,
                   closerVars, workerVars, outVars, panicked>>

\* Faulty variant: the caller does not return on error and goes on to send.
AfterError_FallThrough == "send"

\* Faulty variant: on error the select is entered again.
AfterError_Retry == "select"

\* Where the caller goes when fetchWithTimeout returned an error
\* (main.go:360-363): it returns, the deferred Done runs.
AfterError == "done"

\* main.go:291 and 252: stats.IncrementErrors() takes the mutex
Fetch_ErrorsLock(s) ==
    /\ Running
    /\ fetchPc[s] = "errorsLock"
    /\ Lock
    /\ fetchPc' = [fetchPc EXCEPT ![s] = "errorsInc"]
    /\ UNCHANGED <<demoVars, harnessVars, timeVars, cfg, mainVars, inner, late, responseChan, timer, ret, incs, stats,
                   chanVars, wgVars, closerVars, workerVars, outVars, panicked>>

\* main.go:254, 253, 292, 360-362: errors++, unlock, return nil, error;
\* the caller returns without sending
Fetch_ErrorsInc(s) ==
    /\ Running
    /\ fetchPc[s] = "errorsInc"
    /\ stats' = IncrementErrors(stats)
    /\ incs' = [incs EXCEPT ![s] = Counted(@, stats, stats')]
    /\ Unlock
    /\ ret' = [ret EXCEPT ![s] = "error"]
    /\ fetchPc' = [fetchPc EXCEPT ![s] = AfterError]
    /\ UNCHANGED <<demoVars, harnessVars, timeVars, cfg, mainVars, inner, late, responseChan, timer, chanVars, wgVars,
                   closerVars, workerVars, outVars, panicked>>

\* main.go:366: fetchedData <- response
Fetch_Send(s) ==
    /\ Running
    /\ fetchPc[s] = "send"
    /\ CanSend(fetchedData)
    /\ IF SendPanics(fetchedData)
         THEN /\ panicked' = "send on closed channel"
              /\ UNCHANGED <<fetchedData, fetchPc>>
         ELSE /\ fetchedData' = Send(fetchedData, s)
              /\ fetchPc' = [fetchPc EXCEPT ![s] = "done"]
              /\ UNCHANGED panicked
    /\ UNCHANGED <<demoVars, harnessVars, timeVars, cfg, mainVars, inner, late, responseChan, timer, ret, incs, mu,
                   stats, processedData, closeCalls, wgVars, closerVars,
                   workerVars, outVars>>

\* main.go:356: the deferred fetchWg.Done()
Fetch_Done(s) ==
    /\ Running
    /\ fetchPc[s] = "done"
    /\ IF WgDonePanics(fetchWg)
         THEN /\ panicked' = "negative WaitGroup counter"
              /\ UNCHANGED <<fetchWg, fetchPc>>
         ELSE /\ fetchWg' = WgDone(fetchWg)
              /\ fetchPc' = [fetchPc EXCEPT ![s] = "exited"]
              /\ UNCHANGED panicked
    /\ UNCHANGED <<demoVars, harnessVars, timeVars, cfg, mainVars, inner, late, responseChan, timer, ret, incs, mu,
                   stats, chanVars, processWg, closerVars, workerVars, outVars>>

\* Faulty variant: Wait returns without waiting.
FetchWaitOver_Early == TRUE

\* What fetchWg.Wait() waits for.
FetchWaitOver == fetchWg = 0

\* main.go:372: fetchWg.Wait() returns
FetchCloser_Wait ==
    /\ Running
    /\ fetchCloserPc = "wait"
    /\ FetchWaitOver
    /\ fetchCloserPc' = "close"
    /\ UNCHANGED <<demoVars, harnessVars, timeVars, cfg, mainVars, fetchVars, mu, stats, chanVars, wgVars,
                   procCloserPc, workerVars, outVars, panicked>>

\* main.go:373: close(fetchedData)
FetchCloser_Close ==
    /\ Running
    /\ fetchCloserPc = "close"
    /\ closeCalls' = [closeCalls EXCEPT !.fetchedData = @ + 1]
    /\ IF fetchedData.closed
         THEN /\ panicked' = "close of closed channel"
              /\ UNCHANGED <<fetchedData, fetchCloserPc>>
         ELSE /\ fetchedData' = Close(fetchedData)
              /\ fetchCloserPc' = "exited"
              /\ UNCHANGED panicked
    /\ UNCHANGED <<demoVars, harnessVars, timeVars, cfg, mainVars, fetchVars, mu, stats, processedData, wgVars,
                   procCloserPc, workerVars, outVars>>

-----------------------------------------------------------------------------
(* processingWorker (main.go:297-315).                                     *)

\* main.go:301: for job := range jobs, an item is received. The sleep and
\* the construction of the result (main.go:303-310) touch only locals.
Worker_Recv(w) ==
    /\ Running
    /\ workerPc[w] = "range"
    /\ CanRecv(fetchedData)
    /\ job' = [job EXCEPT ![w] = Head(fetchedData.buf)]
    /\ fetchedData' = Recv(fetchedData)
    /\ workerPc' = [workerPc EXCEPT ![w] = "processedLock"]
    /\ UNCHANGED <<demoVars, harnessVars, timeVars, cfg, mainVars, fetchVars, mu, stats, processedData,
                   closeCalls, wgVars, closerVars, outVars, panicked>>

\* main.go:301: the range loop ends, jobs is closed and drained
Worker_EndOfStream(w) ==
    /\ Running
    /\ workerPc[w] = "range"
    /\ EndOfStream(fetchedData)
    /\ workerPc' = [workerPc EXCEPT ![w] = "done"]
    /\ UNCHANGED <<demoVars, harnessVars, timeVars, cfg, mainVars, fetchVars, mu, stats, chanVars, wgVars,
                   closerVars, job, outVars, panicked>>

\* main.go:312 and 246: stats.IncrementProcessed() takes the mutex
Worker_ProcessedLock(w) ==
    /\ Running
    /\ workerPc[w] = "processedLock"
    /\ Lock
    /\ workerPc' = [workerPc EXCEPT ![w] = "processedInc"]
    /\ UNCHANGED <<demoVars, harnessVars, timeVars, cfg, mainVars, fetchVars, stats, chanVars, wgVars,
                   closerVars, job, outVars, panicked>>

\* main.go:248, 247: totalProcessed++, unlock
Worker_ProcessedInc(w) ==
    /\ Running
    /\ workerPc[w] = "processedInc"
    /\ stats' = IncrementProcessed(stats)
    /\ Unlock
    /\ workerPc' = [workerPc EXCEPT ![w] = "send"]
    /\ UNCHANGED <<demoVars, harnessVars, timeVars, cfg, mainVars, fetchVars, chanVars, wgVars, closerVars, job,
                   outVars, panicked>>

\* main.go:313: results <- result
Worker_Send(w) ==
    /\ Running
    /\ workerPc[w] = "send"
    /\ CanSend(processedData)
    /\ IF SendPanics(processedData)
         THEN /\ panicked' = "send on closed channel"
              /\ UNCHANGED <<processedData, workerPc, job>>
         ELSE /\ processedData' =
                     Send(processedData, [ID |-> w, Source |-> job[w]])
              /\ job' = [job EXCEPT ![w] = 0]
              /\ workerPc' = [workerPc EXCEPT ![w] = "range"]
              /\ UNCHANGED panicked
    /\ UNCHANGED <<demoVars, harnessVars, timeVars, cfg, mainVars, fetchVars, mu, stats, fetchedData, closeCalls,
                   wgVars, closerVars, outVars>>

\* main.go:299: the deferred wg.Done()
Worker_Done(w) ==
    /\ Running
    /\ workerPc[w] = "done"
    /\ IF WgDonePanics(processWg)
         THEN /\ panicked' = "negative WaitGroup counter"
              /\ UNCHANGED <<processWg, workerPc>>
         ELSE /\ processWg' = WgDone(processWg)
              /\ workerPc' = [workerPc EXCEPT ![w] = "exited"]
              /\ UNCHANGED panicked
    /\ UNCHANGED <<demoVars, harnessVars, timeVars, cfg, mainVars, fetchVars, mu, stats, chanVars, fetchWg,
                   closerVars, job, outVars>>

\* Faulty variant: Wait returns without waiting.
ProcWaitOver_Early == TRUE

\* What processWg.Wait() waits for.
ProcWaitOver == processWg = 0

\* main.go:392: processWg.Wait() returns
ProcCloser_Wait ==
    /\ Running
    /\ procCloserPc = "wait"
    /\ ProcWaitOver
    /\ procCloserPc' = "close"
    /\ UNCHANGED <<demoVars, harnessVars, timeVars, cfg, mainVars, fetchVars, mu, stats, chanVars, wgVars,
                   fetchCloserPc, workerVars, outVars, panicked>>

\* main.go:393: close(processedData)
ProcCloser_Close ==
    /\ Running
    /\ procCloserPc = "close"
    /\ closeCalls' = [closeCalls EXCEPT !.processedData = @ + 1]
    /\ IF processedData.closed
         THEN /\ panicked' = "close of closed channel"
              /\ UNCHANGED <<processedData, procCloserPc>>
         ELSE /\ processedData' = Close(processedData)
              /\ procCloserPc' = "exited"
              /\ UNCHANGED panicked
    /\ UNCHANGED <<demoVars, harnessVars, timeVars, cfg, mainVars, fetchVars, mu, stats, fetchedData, wgVars,
                   fetchCloserPc, workerVars, outVars>>

-----------------------------------------------------------------------------
(* outputPipeline (main.go:318-328).                                       *)

\* main.go:321-324: a result is received and printed, count++
Output_Recv ==
    /\ Running
    /\ outPc = "range"
    /\ CanRecv(processedData)
    /\ processedData' = Recv(processedData)
    /\ count' = count + 1
    /\ printed' = [printed EXCEPT ![Head(processedData.buf).Source] = @ + 1]
    /\ UNCHANGED <<demoVars, harnessVars, timeVars, cfg, mainVars, fetchVars, mu, stats, fetchedData, closeCalls,
                   wgVars, closerVars, workerVars, outPc, panicked>>

\* main.go:321: the range loop ends, results is closed and drained
Output_EndOfStream ==
    /\ Running
    /\ outPc = "range"
    /\ EndOfStream(processedData)
    /\ outPc' = "sendDone"
    /\ UNCHANGED <<demoVars, harnessVars, timeVars, cfg, mainVars, fetchVars, mu, stats, chanVars, wgVars,
                   closerVars, workerVars, count, printed, panicked>>

\* main.go:327 and 402: done is unbuffered, so done <- true and <-done
\* happen together
Output_SendDone ==
    /\ Running
    /\ outPc = "sendDone"
    /\ mainPc = "recvDone"
    /\ outPc' = "exited"
    /\ mainPc' = "printLock"
    /\ UNCHANGED <<demoVars, harnessVars, timeVars, cfg, mainI, shown, fetchVars, mu, stats, chanVars, wgVars,
                   closerVars, workerVars, count, printed, panicked>>

-----------------------------------------------------------------------------
\* A step of a goroutine of the pipeline other than a simulated fetch's
\* completion.
Step ==
    \/ Main_LaunchFetch
    \/ Main_LaunchFetchCloser
    \/ Main_LaunchWorker
    \/ Main_LaunchProcCloser
    \/ Main_LaunchOutput
    \/ Main_PrintLock
    \/ Main_Print
    \/ \E s \in Sources :
          \/ Timer_Fire(s)
          \/ Select_Response(s)
          \/ Select_Timeout(s)
          \/ Fetch_FetchedLock(s)
          \/ Fetch_FetchedInc(s)
          \/ Fetch_ErrorsLock(s)
          \/ Fetch_ErrorsInc(s)
          \/ Fetch_Send(s)
          \/ Fetch_Done(s)
    \/ FetchCloser_Wait
    \/ FetchCloser_Close
    \/ \E w \in Workers :
          \/ Worker_Recv(w)
          \/ Worker_EndOfStream(w)
          \/ Worker_ProcessedLock(w)
          \/ Worker_ProcessedInc(w)
          \/ Worker_Send(w)
          \/ Worker_Done(w)
    \/ ProcCloser_Wait
    \/ ProcCloser_Close
    \/ Output_Recv
    \/ Output_EndOfStream
    \/ Output_SendDone

Next ==
    \/ Step
    \/ \E s \in Sources : Inner_Send(s)

Spec == Init /\ [][Next]_vars

-----------------------------------------------------------------------------
(* The pipeline under a clock: a sleep and a timer take exactly their      *)
(* duration, every other step takes no time.                               *)

\* The instants at which a sleep ends or a timer becomes due.
Pending ==
    {startAt[s] + latency[s] : s \in {x \in Sources : inner[x] = "sleeping"}}
    \cup {startAt[s] + Timeout :
             s \in {x \in Sources : fetchPc[x] = "select" /\ ~timer[x]}}

\* Time passes, to the next such instant, when no goroutine can take a step.
Advance ==
    /\ Running
    /\ cfg.timed
    /\ ~ENABLED Next
    /\ \E t \in Pending :
          /\ t > now
          /\ \A u \in Pending : u > now => t <= u
          /\ now' = t
    /\ UNCHANGED <<demoVars, harnessVars, startAt, latency, cfg, mainVars, fetchVars,
                   mu, stats, chanVars, wgVars, closerVars, workerVars,
                   outVars, panicked>>

TimedNext == Next \/ Advance

TimedInit ==
    /\ cfg = [workers |-> numWorkers, capacity |-> NumSources, timed |-> TRUE]
    /\ InitPipeline
    /\ InitCallers(0)
    /\ InitDemos

TimedSpec == TimedInit /\ [][TimedNext]_vars

\* Every configuration, under fair scheduling of the goroutines and with
\* timers that fire. A simulated fetch is under no obligation to complete.
FairSpec == InitAnyConfig /\ [][Next]_vars /\ WF_vars(Step)

\* main.go:382-394 with numWorkers set to 0 as well as to its value in the
\* code: the loop of main.go:385 is then empty and nothing else reads
\* numWorkers.
ZeroWorkersInit ==
    /\ cfg \in [workers : {0, numWorkers}, capacity : {NumSources},
                timed : {FALSE}]
    /\ InitPipeline
    /\ InitCallers(0)
    /\ InitDemos

ZeroWorkersSpec == ZeroWorkersInit /\ [][Next]_vars

\* main.go:382-388 with a pool smaller than the number of sources, as well
\* as the pool of the code.
SmallPoolInit ==
    /\ cfg \in [workers : {1, numWorkers}, capacity : {NumSources},
                timed : {FALSE}]
    /\ InitPipeline
    /\ InitCallers(0)
    /\ InitDemos

SmallPoolSpec == SmallPoolInit /\ [][Next]_vars

-----------------------------------------------------------------------------
(* Stats (main.go:232-263) under concurrent callers: every method may be   *)
(* called by any goroutine at any time. s.field++ is a read followed by a  *)
(* write; Print reads the three fields one after the other.                *)

\* A goroutine calls method m.
Call_Begin(c, m) ==
    /\ callPc[c] = "idle"
    /\ callsLeft[c] > 0
    /\ callsLeft' = [callsLeft EXCEPT ![c] = @ - 1]
    /\ callOp' = [callOp EXCEPT ![c] = m]
    /\ callPc' = [callPc EXCEPT ![c] = "lock"]
    /\ UNCHANGED <<demoVars, pipelineVars, mu, stats, tmp, snap, calls, mutations,
                   printLog>>

\* main.go:240, 246, 252, 258: s.mu.Lock()
Call_Lock(c) ==
    /\ callPc[c] = "lock"
    /\ Lock
    /\ callPc' = [callPc EXCEPT
                    ![c] = IF callOp[c] = "Print" THEN "readFetched" ELSE "read"]
    /\ UNCHANGED <<demoVars, pipelineVars, stats, callOp, callsLeft, tmp, snap, calls,
                   mutations, printLog>>

\* main.go:242, 248, 254: s.field++ reads the field
Inc_Read(c) ==
    /\ callPc[c] = "read"
    /\ tmp' = [tmp EXCEPT ![c] = stats[FieldOf(callOp[c])]]
    /\ callPc' = [callPc EXCEPT ![c] = "write"]
    /\ UNCHANGED <<demoVars, pipelineVars, mu, stats, callOp, callsLeft, snap, calls,
                   mutations, printLog>>

\* main.go:242, 248, 254: s.field++ writes the value read, plus one
Inc_Write(c) ==
    /\ callPc[c] = "write"
    /\ LET f == FieldOf(callOp[c])
       IN stats' = [stats EXCEPT
                      ![f] = Apply(callOp[c], [stats EXCEPT ![f] = tmp[c]])[f]]
    /\ mutations' = mutations + 1
    /\ callPc' = [callPc EXCEPT ![c] = "unlock"]
    /\ UNCHANGED <<demoVars, pipelineVars, mu, callOp, callsLeft, tmp, snap, calls,
                   printLog>>

\* main.go:262: the argument s.totalFetched is read
Print_ReadFetched(c) ==
    /\ callPc[c] = "readFetched"
    /\ snap' = [snap EXCEPT ![c] = <<stats.totalFetched>>]
    /\ callPc' = [callPc EXCEPT ![c] = "readProcessed"]
    /\ UNCHANGED <<demoVars, pipelineVars, mu, stats, callOp, callsLeft, tmp, calls,
                   mutations, printLog>>

\* main.go:262: the argument s.totalProcessed is read
Print_ReadProcessed(c) ==
    /\ callPc[c] = "readProcessed"
    /\ snap' = [snap EXCEPT ![c] = Append(@, stats.totalProcessed)]
    /\ callPc' = [callPc EXCEPT ![c] = "readErrors"]
    /\ UNCHANGED <<demoVars, pipelineVars, mu, stats, callOp, callsLeft, tmp, calls,
                   mutations, printLog>>

\* main.go:261-262: the argument s.errors is read and the line is printed
Print_ReadErrors(c) ==
    /\ callPc[c] = "readErrors"
    /\ snap' = [snap EXCEPT ![c] = Append(@, stats.errors)]
    /\ stats' = AfterPrint(stats)
    /\ callPc' = [callPc EXCEPT ![c] = "unlock"]
    /\ UNCHANGED <<demoVars, pipelineVars, mu, callOp, callsLeft, tmp, calls, mutations,
                   printLog>>

\* The last two entries of a log.
LastTwo(log) == IF Len(log) <= 2 THEN log ELSE Tail(log)

\* main.go:241, 247, 253, 259: the deferred s.mu.Unlock(); the call returns
Call_Unlock(c) ==
    /\ callPc[c] = "unlock"
    /\ Unlock
    /\ calls' = [calls EXCEPT ![callOp[c]] = @ + 1]
    /\ printLog' = IF callOp[c] = "Print"
                     THEN LastTwo(Append(printLog,
                              [shown |-> snap[c], mutations |-> mutations]))
                     ELSE printLog
    /\ callPc' = [callPc EXCEPT ![c] = "idle"]
    /\ callOp' = [callOp EXCEPT ![c] = "none"]
    /\ tmp' = [tmp EXCEPT ![c] = 0]
    /\ snap' = [snap EXCEPT ![c] = <<>>]
    /\ UNCHANGED <<demoVars, pipelineVars, stats, callsLeft, mutations>>

StatsNext ==
    \E c \in Callers :
        \/ \E m \in Methods : Call_Begin(c, m)
        \/ Call_Lock(c)
        \/ Inc_Read(c)
        \/ Inc_Write(c)
        \/ Print_ReadFetched(c)
        \/ Print_ReadProcessed(c)
        \/ Print_ReadErrors(c)
        \/ Call_Unlock(c)

\* One Stats, as made at main.go:337, and callers that have not begun.
StatsInit ==
    /\ cfg = [workers |-> numWorkers, capacity |-> NumSources, timed |-> FALSE]
    /\ InitPipeline
    /\ InitCallers(MaxCalls)
    /\ InitDemos

StatsSpec == StatsInit /\ [][StatsNext]_vars

-----------------------------------------------------------------------------
(* The shared counter: solution8 (solutions.go:256-283), the broken code   *)
(* of exercise8 (exercises.go:160-177), and demonstrateMutex with counter  *)
(* (main.go:39-53, 135-152). counter++ is a read followed by a write.      *)

\* Faulty variant: Lock succeeds although the mutex is held.
CounterLock_Unguarded == counterMu' = TRUE

\* solutions.go:268, main.go:43: mu.Lock()
CounterLock == ~counterMu /\ counterMu' = TRUE

\* Faulty variant: the increment writes one more than the counter holds now.
Written_Fresh(g) == counter + 1

\* solutions.go:269, exercises.go:170, main.go:44: counter++ writes one more
\* than the value it has read.
Written(g) == incTmp[g] + 1

\* solutions.go:267, exercises.go:169, main.go:42: the loop test, and where
\* the body begins.
IncLoop(j) ==
    IF j < Iterations THEN (IF useMutex THEN "lock" ELSE "read") ELSE "done"

\* solutions.go:263-265, main.go:145-147: wg.Add(1); go func()
CounterMain_Launch ==
    /\ cntMainPc = "launch"
    /\ cntMainI <= NumIncrementers
    /\ counterWg' = WgAdd(counterWg)
    /\ incPc' = [incPc EXCEPT ![cntMainI] = IncLoop(0)]
    /\ cntMainI' = cntMainI + 1
    /\ UNCHANGED <<useMutex, counter, counterMu, incJ, incTmp, cntMainPc,
                   reported, performed, stale>>
    /\ FrameOf("counter")

\* solutions.go:263, main.go:145: the launching loop ends
CounterMain_Launched ==
    /\ cntMainPc = "launch"
    /\ cntMainI > NumIncrementers
    /\ cntMainPc' = "wait"
    /\ UNCHANGED <<useMutex, counter, counterMu, counterWg, incPc, incJ,
                   incTmp, cntMainI, reported, performed, stale>>
    /\ FrameOf("counter")

\* solutions.go:275, main.go:150: wg.Wait() returns
CounterMain_Wait ==
    /\ cntMainPc = "wait"
    /\ counterWg = 0
    /\ cntMainPc' = "report"
    /\ UNCHANGED <<useMutex, counter, counterMu, counterWg, incPc, incJ,
                   incTmp, cntMainI, reported, performed, stale>>
    /\ FrameOf("counter")

\* solutions.go:276, main.go:151: the counter is read and printed
CounterMain_Report ==
    /\ cntMainPc = "report"
    /\ reported' = counter
    /\ cntMainPc' = "returned"
    /\ UNCHANGED <<useMutex, counter, counterMu, counterWg, incPc, incJ,
                   incTmp, cntMainI, performed, stale>>
    /\ FrameOf("counter")

\* solutions.go:268, main.go:43
Counter_Lock(g) ==
    /\ incPc[g] = "lock"
    /\ CounterLock
    /\ incPc' = [incPc EXCEPT ![g] = "read"]
    /\ UNCHANGED <<useMutex, counter, counterWg, incJ, incTmp, cntMainPc,
                   cntMainI, reported, performed, stale>>
    /\ FrameOf("counter")

\* solutions.go:269, exercises.go:170, main.go:44: counter++ reads
Counter_Read(g) ==
    /\ incPc[g] = "read"
    /\ incTmp' = [incTmp EXCEPT ![g] = counter]
    /\ incPc' = [incPc EXCEPT ![g] = "write"]
    /\ UNCHANGED <<useMutex, counter, counterMu, counterWg, incJ, cntMainPc,
                   cntMainI, reported, performed, stale>>
    /\ FrameOf("counter")

\* solutions.go:269, exercises.go:170, main.go:44: counter++ writes; without
\* the mutex the next iteration follows.
Counter_Write(g) ==
    /\ incPc[g] = "write"
    /\ counter' = Written(g)
    /\ performed' = performed + 1
    /\ stale' = stale + (IF incTmp[g] # counter THEN 1 ELSE 0)
    /\ IF useMutex
         THEN /\ incPc' = [incPc EXCEPT ![g] = "unlock"]
              /\ UNCHANGED incJ
         ELSE /\ incJ' = [incJ EXCEPT ![g] = @ + 1]
              /\ incPc' = [incPc EXCEPT ![g] = IncLoop(incJ[g] + 1)]
    /\ UNCHANGED <<useMutex, counterMu, counterWg, incTmp, cntMainPc,
                   cntMainI, reported>>
    /\ FrameOf("counter")

\* solutions.go:270, main.go:46: mu.Unlock(), then the next iteration
Counter_Unlock(g) ==
    /\ incPc[g] = "unlock"
    /\ counterMu' = FALSE
    /\ incJ' = [incJ EXCEPT ![g] = @ + 1]
    /\ incPc' = [incPc EXCEPT ![g] = IncLoop(incJ[g] + 1)]
    /\ UNCHANGED <<useMutex, counter, counterWg, incTmp, cntMainPc, cntMainI,
                   reported, performed, stale>>
    /\ FrameOf("counter")

\* solutions.go:266, exercises.go:168, main.go:40: the deferred wg.Done()
Counter_Done(g) ==
    /\ incPc[g] = "done"
    /\ counterWg' = WgDone(counterWg)
    /\ incPc' = [incPc EXCEPT ![g] = "exited"]
    /\ UNCHANGED <<useMutex, counter, counterMu, incJ, incTmp, cntMainPc,
                   cntMainI, reported, performed, stale>>
    /\ FrameOf("counter")

CounterNext ==
    \/ CounterMain_Launch
    \/ CounterMain_Launched
    \/ CounterMain_Wait
    \/ CounterMain_Report
    \/ \E g \in Incrementers : Counter_Lock(g)
    \/ \E g \in Incrementers : Counter_Read(g)
    \/ \E g \in Incrementers : Counter_Write(g)
    \/ \E g \in Incrementers : Counter_Unlock(g)
    \/ \E g \in Incrementers : Counter_Done(g)

\* The counter with the mutex (solution8, demonstrateMutex) and without it
\* (exercise8).
CounterInit ==
    /\ InitIntegrated
    /\ InitCounter(BOOLEAN)
    /\ InitDemosBut("counter")

CounterSpec == CounterInit /\ [][CounterNext]_vars

-----------------------------------------------------------------------------
(* solution5 (solutions.go:129-160): two goroutines each send a partial    *)
(* sum on the unbuffered channel ch, which holds no value: a send         *)
(* completes together with a receive.                                      *)

\* The goroutines solution5 has started so far.
SumLaunched == {g \in Summers : sumPc[g] # "unborn"}

\* solutions.go:145-146: go calculateSum(start, end); sum := 0, i := start
S5_Launch ==
    /\ s5MainPc = "launch"
    /\ \E g \in Summers :
          /\ g = Cardinality(SumLaunched) + 1
          /\ sumPc' = [sumPc EXCEPT ![g] = "loop"]
          /\ sumI' = [sumI EXCEPT ![g] = SumRange[g].start]
          /\ sum' = [sum EXCEPT ![g] = 0]
          /\ s5MainPc' = IF g = Len(SumRange) THEN "recv1" ELSE "launch"
    /\ UNCHANGED <<sum1, sum2, total>>
    /\ FrameOf("sum")

\* Faulty variant: the loop leaves out its last number.
InRange_Exclusive(g) == sumI[g] < SumRange[g].end

\* solutions.go:138: i <= end
InRange(g) == sumI[g] <= SumRange[g].end

\* solutions.go:138-139: sum += i; i++
Sum_Add(g) ==
    /\ sumPc[g] = "loop"
    /\ InRange(g)
    /\ sum' = [sum EXCEPT ![g] = @ + sumI[g]]
    /\ sumI' = [sumI EXCEPT ![g] = @ + 1]
    /\ UNCHANGED <<sumPc, s5MainPc, sum1, sum2, total>>
    /\ FrameOf("sum")

\* solutions.go:138: the loop ends; the goroutine arrives at ch <- sum
Sum_LoopEnd(g) ==
    /\ sumPc[g] = "loop"
    /\ ~InRange(g)
    /\ sumPc' = [sumPc EXCEPT ![g] = "send"]
    /\ UNCHANGED <<sumI, sum, s5MainPc, sum1, sum2, total>>
    /\ FrameOf("sum")

\* solutions.go:141 with 149: ch <- sum meets sum1 := <-ch
Sum_SendFirst(g) ==
    /\ sumPc[g] = "send"
    /\ s5MainPc = "recv1"
    /\ sum1' = sum[g]
    /\ s5MainPc' = "recv2"
    /\ sumPc' = [sumPc EXCEPT ![g] = "exited"]
    /\ UNCHANGED <<sumI, sum, sum2, total>>
    /\ FrameOf("sum")

\* solutions.go:141 with 150: ch <- sum meets sum2 := <-ch
Sum_SendSecond(g) ==
    /\ sumPc[g] = "send"
    /\ s5MainPc = "recv2"
    /\ sum2' = sum[g]
    /\ s5MainPc' = "total"
    /\ sumPc' = [sumPc EXCEPT ![g] = "exited"]
    /\ UNCHANGED <<sumI, sum, sum1, total>>
    /\ FrameOf("sum")

\* solutions.go:153-159: total := sum1 + sum2, printed
S5_Total ==
    /\ s5MainPc = "total"
    /\ total' = sum1 + sum2
    /\ s5MainPc' = "returned"
    /\ UNCHANGED <<sumPc, sumI, sum, sum1, sum2>>
    /\ FrameOf("sum")

SumNext ==
    \/ S5_Launch
    \/ S5_Total
    \/ \E g \in Summers : Sum_Add(g)
    \/ \E g \in Summers : Sum_LoopEnd(g)
    \/ \E g \in Summers : Sum_SendFirst(g)
    \/ \E g \in Summers : Sum_SendSecond(g)

SumInit ==
    /\ InitIntegrated
    /\ InitSum
    /\ InitDemosBut("sum")

SumSpec == SumInit /\ [][SumNext]_vars

-----------------------------------------------------------------------------
(* solution9 (solutions.go:289-320) under a clock. A sleep ends its        *)
(* duration, or up to MaxJitter later, after it began; every other step    *)
(* takes no time, and time passes only when no goroutine can step.         *)

\* The instants at which a sleep of duration d that begins now may end.
WakeTimes(d) == {s9Now + d + j : j \in 0..MaxJitter}

\* solutions.go:296, 310: go func(); time.Sleep(1 * time.Second) begins
S9_Launch ==
    /\ s9MainPc = "launch"
    /\ s9WorkerPc' = "select"
    /\ s9MainPc' = "running"
    /\ s9MainWake' \in WakeTimes(RunTime)
    /\ UNCHANGED <<s9Now, s9WorkerWake, s9Cancelled>>
    /\ FrameOf("solution9")

\* solutions.go:310-317: the sleep ends; cancel(); time.Sleep(100 ms) begins
S9_Cancel ==
    /\ s9MainPc = "running"
    /\ s9Now >= s9MainWake
    /\ s9Cancelled' = TRUE
    /\ s9MainPc' = "grace"
    /\ s9MainWake' \in WakeTimes(GraceTime)
    /\ UNCHANGED <<s9Now, s9WorkerPc, s9WorkerWake>>
    /\ FrameOf("solution9")

\* solutions.go:317-320: the sleep ends and solution9 returns
S9_Return ==
    /\ s9MainPc = "grace"
    /\ s9Now >= s9MainWake
    /\ s9MainPc' = "returned"
    /\ UNCHANGED <<s9Now, s9MainWake, s9WorkerPc, s9WorkerWake, s9Cancelled>>
    /\ FrameOf("solution9")

\* solutions.go:298-301: case <-ctx.Done(): return
S9Worker_Stop ==
    /\ s9WorkerPc = "select"
    /\ s9Cancelled
    /\ s9WorkerPc' = "returned"
    /\ UNCHANGED <<s9Now, s9MainPc, s9MainWake, s9WorkerWake, s9Cancelled>>
    /\ FrameOf("solution9")

\* solutions.go:302-304: default: time.Sleep(200 ms) begins
S9Worker_Work ==
    /\ s9WorkerPc = "select"
    /\ ~s9Cancelled
    /\ s9WorkerPc' = "sleeping"
    /\ s9WorkerWake' \in WakeTimes(WorkPause)
    /\ UNCHANGED <<s9Now, s9MainPc, s9MainWake, s9Cancelled>>
    /\ FrameOf("solution9")

\* solutions.go:304, 297: the sleep ends; the loop returns to the select
S9Worker_Wake ==
    /\ s9WorkerPc = "sleeping"
    /\ s9Now >= s9WorkerWake
    /\ s9WorkerPc' = "select"
    /\ UNCHANGED <<s9Now, s9MainPc, s9MainWake, s9WorkerWake, s9Cancelled>>
    /\ FrameOf("solution9")

S9Step ==
    \/ S9_Launch
    \/ S9_Cancel
    \/ S9_Return
    \/ S9Worker_Stop
    \/ S9Worker_Work
    \/ S9Worker_Wake

\* The instants at which a sleep in progress ends.
S9Pending ==
    (IF s9MainPc \in {"running", "grace"} THEN {s9MainWake} ELSE {})
    \cup (IF s9WorkerPc = "sleeping" THEN {s9WorkerWake} ELSE {})

\* Time passes to the next such instant.
S9_Advance ==
    /\ ~ENABLED S9Step
    /\ \E t \in S9Pending :
          /\ t > s9Now
          /\ \A u \in S9Pending : t <= u
          /\ s9Now' = t
    /\ UNCHANGED <<s9MainPc, s9MainWake, s9WorkerPc, s9WorkerWake, s9Cancelled>>
    /\ FrameOf("solution9")

Solution9Next == S9Step \/ S9_Advance

Solution9Init ==
    /\ InitIntegrated
    /\ InitSolution9
    /\ InitDemosBut("solution9")

Solution9Spec == Solution9Init /\ [][Solution9Next]_vars

-----------------------------------------------------------------------------
(* demonstrateWorkerPool (main.go:76-102) with Worker.Process              *)
(* (main.go:16-25): one goroutine per job.                                 *)

\* main.go:88: the id of the Worker that is given job i.
WorkerId(i) == (i % poolNumWorkers) + 1

\* main.go:86-89: wg.Add(1); worker := Worker{id}; go worker.Process(i, ...)
Pool_Launch ==
    /\ poolMainPc = "launch"
    /\ poolI <= NumJobs
    /\ poolWg' = WgAdd(poolWg)
    /\ poolPc' = [poolPc EXCEPT ![poolI] = "working"]
    /\ poolI' = poolI + 1
    /\ UNCHANGED <<poolResults, poolCloserPc, poolMainPc, poolPrinted>>
    /\ FrameOf("pool")

\* main.go:93: the loop is over; go func() { wg.Wait(); close(results) }()
Pool_LaunchCloser ==
    /\ poolMainPc = "launch"
    /\ poolI > NumJobs
    /\ poolCloserPc' = "wait"
    /\ poolMainPc' = "range"
    /\ UNCHANGED <<poolPc, poolWg, poolResults, poolI, poolPrinted>>
    /\ FrameOf("pool")

\* main.go:20-24: the sleep is over; results <- result. results has room
\* for every job (main.go:83); a send on a closed channel panics.
PoolJob_Send(j) ==
    /\ poolPc[j] = "working"
    /\ Len(poolResults.buf) < NumJobs \/ poolResults.closed
    /\ IF SendPanics(poolResults)
         THEN /\ poolPc' = [poolPc EXCEPT ![j] = "panicked"]
              /\ UNCHANGED poolResults
         ELSE /\ poolResults' = Send(poolResults, j)
              /\ poolPc' = [poolPc EXCEPT ![j] = "done"]
    /\ UNCHANGED <<poolWg, poolCloserPc, poolMainPc, poolI, poolPrinted>>
    /\ FrameOf("pool")

\* main.go:17: the deferred wg.Done()
PoolJob_Done(j) ==
    /\ poolPc[j] = "done"
    /\ poolWg' = WgDone(poolWg)
    /\ poolPc' = [poolPc EXCEPT ![j] = "exited"]
    /\ UNCHANGED <<poolResults, poolCloserPc, poolMainPc, poolI, poolPrinted>>
    /\ FrameOf("pool")

\* main.go:94: wg.Wait() returns
PoolCloser_Wait ==
    /\ poolCloserPc = "wait"
    /\ poolWg = 0
    /\ poolCloserPc' = "close"
    /\ UNCHANGED <<poolPc, poolWg, poolResults, poolMainPc, poolI, poolPrinted>>
    /\ FrameOf("pool")

\* main.go:95: close(results)
PoolCloser_Close ==
    /\ poolCloserPc = "close"
    /\ poolResults' = Close(poolResults)
    /\ poolCloserPc' = "exited"
    /\ UNCHANGED <<poolPc, poolWg, poolMainPc, poolI, poolPrinted>>
    /\ FrameOf("pool")

\* main.go:99-100: for result := range results, a result is printed
Pool_Recv ==
    /\ poolMainPc = "range"
    /\ CanRecv(poolResults)
    /\ poolPrinted' = poolPrinted + 1
    /\ poolResults' = Recv(poolResults)
    /\ UNCHANGED <<poolPc, poolWg, poolCloserPc, poolMainPc, poolI>>
    /\ FrameOf("pool")

\* main.go:99-102: results is closed and drained; the function returns
Pool_EndOfStream ==
    /\ poolMainPc = "range"
    /\ EndOfStream(poolResults)
    /\ poolMainPc' = "returned"
    /\ UNCHANGED <<poolPc, poolWg, poolResults, poolCloserPc, poolI, poolPrinted>>
    /\ FrameOf("pool")

PoolNext ==
    \/ Pool_Launch
    \/ Pool_LaunchCloser
    \/ PoolCloser_Wait
    \/ PoolCloser_Close
    \/ Pool_Recv
    \/ Pool_EndOfStream
    \/ \E j \in Jobs : PoolJob_Send(j)
    \/ \E j \in Jobs : PoolJob_Done(j)

PoolInit ==
    /\ InitIntegrated
    /\ InitPool
    /\ InitDemosBut("pool")

PoolSpec == PoolInit /\ [][PoolNext]_vars

-----------------------------------------------------------------------------
(* semaphoreExample and semaphoreTask (03_advanced_goroutine.go:236-275):  *)
(* the buffered channel sem, of capacity maxConcurrent, as a semaphore.    *)

\* Faulty variant: the send on sem never waits.
SemHasRoom_Always == TRUE

\* 03_advanced_goroutine.go:241: sem <- struct{}{} proceeds when the buffer
\* of sem is not full.
SemHasRoom == sem < maxConcurrent

\* Faulty variant: the deferred receive leaves the value in sem.
SemReleased_Kept(n) == n

\* 03_advanced_goroutine.go:242: <-sem takes one value out of the buffer.
SemReleased(n) == n - 1

\* 03_advanced_goroutine.go:260-263: wg.Add(1); go semaphoreTask(i, ...)
Sem_Launch ==
    /\ semMainPc = "launch"
    /\ semI <= NumTasks
    /\ semWg' = WgAdd(semWg)
    /\ semPc' = [semPc EXCEPT ![semI] = "acquire"]
    /\ semI' = semI + 1
    /\ UNCHANGED <<sem, semResults, semCloserPc, semMainPc, semPrinted>>
    /\ FrameOf("sem")

\* 03_advanced_goroutine.go:266: go func() { wg.Wait(); close(results) }()
Sem_LaunchCloser ==
    /\ semMainPc = "launch"
    /\ semI > NumTasks
    /\ semCloserPc' = "wait"
    /\ semMainPc' = "range"
    /\ UNCHANGED <<semPc, sem, semResults, semWg, semI, semPrinted>>
    /\ FrameOf("sem")

\* 03_advanced_goroutine.go:241: sem <- struct{}{}
SemTask_Acquire(k) ==
    /\ semPc[k] = "acquire"
    /\ SemHasRoom
    /\ sem' = sem + 1
    /\ semPc' = [semPc EXCEPT ![k] = "running"]
    /\ UNCHANGED <<semResults, semWg, semCloserPc, semMainPc, semI, semPrinted>>
    /\ FrameOf("sem")

\* 03_advanced_goroutine.go:244-246: the sleep is over; results <- ...
\* results has room for every task; a send on a closed channel panics.
SemTask_Send(k) ==
    /\ semPc[k] = "running"
    /\ Len(semResults.buf) < NumTasks \/ semResults.closed
    /\ IF SendPanics(semResults)
         THEN /\ semPc' = [semPc EXCEPT ![k] = "panicked"]
              /\ UNCHANGED semResults
         ELSE /\ semResults' = Send(semResults, k)
              /\ semPc' = [semPc EXCEPT ![k] = "release"]
    /\ UNCHANGED <<sem, semWg, semCloserPc, semMainPc, semI, semPrinted>>
    /\ FrameOf("sem")

\* 03_advanced_goroutine.go:242: the deferred <-sem, which runs first
SemTask_Release(k) ==
    /\ semPc[k] = "release"
    /\ sem > 0
    /\ sem' = SemReleased(sem)
    /\ semPc' = [semPc EXCEPT ![k] = "done"]
    /\ UNCHANGED <<semResults, semWg, semCloserPc, semMainPc, semI, semPrinted>>
    /\ FrameOf("sem")

\* 03_advanced_goroutine.go:238: the deferred wg.Done(), which runs last
SemTask_Done(k) ==
    /\ semPc[k] = "done"
    /\ semWg' = WgDone(semWg)
    /\ semPc' = [semPc EXCEPT ![k] = "exited"]
    /\ UNCHANGED <<sem, semResults, semCloserPc, semMainPc, semI, semPrinted>>
    /\ FrameOf("sem")

\* 03_advanced_goroutine.go:267: wg.Wait() returns
SemCloser_Wait ==
    /\ semCloserPc = "wait"
    /\ semWg = 0
    /\ semCloserPc' = "close"
    /\ UNCHANGED <<semPc, sem, semResults, semWg, semMainPc, semI, semPrinted>>
    /\ FrameOf("sem")

\* 03_advanced_goroutine.go:268: close(results)
SemCloser_Close ==
    /\ semCloserPc = "close"
    /\ semResults' = Close(semResults)
    /\ semCloserPc' = "exited"
    /\ UNCHANGED <<semPc, sem, semWg, semMainPc, semI, semPrinted>>
    /\ FrameOf("sem")

\* 03_advanced_goroutine.go:272-273: a result is received and printed
Sem_Recv ==
    /\ semMainPc = "range"
    /\ CanRecv(semResults)
    /\ semResults' = Recv(semResults)
    /\ semPrinted' = semPrinted + 1
    /\ UNCHANGED <<semPc, sem, semWg, semCloserPc, semMainPc, semI>>
    /\ FrameOf("sem")

\* 03_advanced_goroutine.go:272-275: results is closed and drained
Sem_EndOfStream ==
    /\ semMainPc = "range"
    /\ EndOfStream(semResults)
    /\ semMainPc' = "returned"
    /\ UNCHANGED <<semPc, sem, semResults, semWg, semCloserPc, semI, semPrinted>>
    /\ FrameOf("sem")

SemNext ==
    \/ Sem_Launch
    \/ Sem_LaunchCloser
    \/ SemCloser_Wait
    \/ SemCloser_Close
    \/ Sem_Recv
    \/ Sem_EndOfStream
    \/ \E k \in Tasks : SemTask_Acquire(k)
    \/ \E k \in Tasks : SemTask_Send(k)
    \/ \E k \in Tasks : SemTask_Release(k)
    \/ \E k \in Tasks : SemTask_Done(k)

SemInit ==
    /\ InitIntegrated
    /\ InitSem
    /\ InitDemosBut("sem")

SemSpec == SemInit /\ [][SemNext]_vars

\* Every goroutine that can step eventually does. No goroutine of
\* semaphoreExample takes a step that another can disable for ever.
SemFairSpec == SemSpec /\ WF_vars(SemNext)

-----------------------------------------------------------------------------
(* ErrorGroup (03_advanced_goroutine.go:277-299) used as errorGroupExample *)
(* uses it: some calls of Go, then Wait. A function may return nil or an   *)
(* error; append reads eg.errors and then writes it.                       *)

\* Faulty variant: Lock succeeds although the mutex is held.
EgLock_Unguarded == egMu' = TRUE

\* 03_advanced_goroutine.go:289: eg.mu.Lock()
EgLock == ~egMu /\ egMu' = TRUE

\* 03_advanced_goroutine.go:285-286: eg.wg.Add(1); go func()
Eg_Go ==
    /\ egMainPc = "go"
    /\ egI <= NumFuncs
    /\ egWg' = WgAdd(egWg)
    /\ egPc' = [egPc EXCEPT ![egI] = "running"]
    /\ egI' = egI + 1
    /\ UNCHANGED <<egOutcome, egMu, egErrors, egTmp, egMainPc, egReturned>>
    /\ FrameOf("eg")

\* 03_advanced_goroutine.go:326: the caller goes on to eg.Wait()
Eg_CallWait ==
    /\ egMainPc = "go"
    /\ egI > NumFuncs
    /\ egMainPc' = "wait"
    /\ UNCHANGED <<egPc, egOutcome, egWg, egMu, egErrors, egTmp, egI,
                   egReturned>>
    /\ FrameOf("eg")

\* 03_advanced_goroutine.go:297-298: eg.wg.Wait() returns; return eg.errors
Eg_Wait ==
    /\ egMainPc = "wait"
    /\ egWg = 0
    /\ egReturned' = egErrors
    /\ egMainPc' = "returned"
    /\ UNCHANGED <<egPc, egOutcome, egWg, egMu, egErrors, egTmp, egI>>
    /\ FrameOf("eg")

\* 03_advanced_goroutine.go:288: f() returns nil
EgFunc_ReturnNil(f) ==
    /\ egPc[f] = "running"
    /\ egOutcome' = [egOutcome EXCEPT ![f] = "nil"]
    /\ egPc' = [egPc EXCEPT ![f] = "done"]
    /\ UNCHANGED <<egWg, egMu, egErrors, egTmp, egMainPc, egI, egReturned>>
    /\ FrameOf("eg")

\* 03_advanced_goroutine.go:288: f() returns an error
EgFunc_ReturnErr(f) ==
    /\ egPc[f] = "running"
    /\ egOutcome' = [egOutcome EXCEPT ![f] = "err"]
    /\ egPc' = [egPc EXCEPT ![f] = "lock"]
    /\ UNCHANGED <<egWg, egMu, egErrors, egTmp, egMainPc, egI, egReturned>>
    /\ FrameOf("eg")

\* 03_advanced_goroutine.go:289
EgFunc_Lock(f) ==
    /\ egPc[f] = "lock"
    /\ EgLock
    /\ egPc' = [egPc EXCEPT ![f] = "append"]
    /\ UNCHANGED <<egOutcome, egWg, egErrors, egTmp, egMainPc, egI,
                   egReturned>>
    /\ FrameOf("eg")

\* 03_advanced_goroutine.go:290: append reads eg.errors
EgFunc_AppendRead(f) ==
    /\ egPc[f] = "append"
    /\ egTmp' = [egTmp EXCEPT ![f] = egErrors]
    /\ egPc' = [egPc EXCEPT ![f] = "assign"]
    /\ UNCHANGED <<egOutcome, egWg, egMu, egErrors, egMainPc, egI,
                   egReturned>>
    /\ FrameOf("eg")

\* 03_advanced_goroutine.go:290-291: eg.errors = ...; eg.mu.Unlock()
EgFunc_Assign(f) ==
    /\ egPc[f] = "assign"
    /\ egErrors' = Append(egTmp[f], f)
    /\ egMu' = FALSE
    /\ egPc' = [egPc EXCEPT ![f] = "done"]
    /\ UNCHANGED <<egOutcome, egWg, egTmp, egMainPc, egI, egReturned>>
    /\ FrameOf("eg")

\* 03_advanced_goroutine.go:287: the deferred eg.wg.Done()
EgFunc_Done(f) ==
    /\ egPc[f] = "done"
    /\ egWg' = WgDone(egWg)
    /\ egPc' = [egPc EXCEPT ![f] = "exited"]
    /\ UNCHANGED <<egOutcome, egMu, egErrors, egTmp, egMainPc, egI,
                   egReturned>>
    /\ FrameOf("eg")

EgNext ==
    \/ Eg_Go
    \/ Eg_CallWait
    \/ Eg_Wait
    \/ \E f \in Funcs : EgFunc_ReturnNil(f)
    \/ \E f \in Funcs : EgFunc_ReturnErr(f)
    \/ \E f \in Funcs : EgFunc_Lock(f)
    \/ \E f \in Funcs : EgFunc_AppendRead(f)
    \/ \E f \in Funcs : EgFunc_Assign(f)
    \/ \E f \in Funcs : EgFunc_Done(f)

EgInit ==
    /\ InitIntegrated
    /\ InitEg
    /\ InitDemosBut("eg")

EgSpec == EgInit /\ [][EgNext]_vars

-----------------------------------------------------------------------------
(* contextCancellationExample and cancellableWorker                        *)
(* (03_advanced_goroutine.go:126-166). The sleeps carry no upper bound, so *)
(* cancel() may come at any point of a worker's loop.                      *)

\* Faulty variant: the worker never finds ctx.Done() closed.
CtxIsDone_Never == FALSE

\* 03_advanced_goroutine.go:130: <-ctx.Done() can be received
CtxIsDone == ctxDone

\* 03_advanced_goroutine.go:150-152: go cancellableWorker(ctx, i, results)
Cancel_Launch ==
    /\ cwMainPc = "launch"
    /\ cwI <= numCancellable
    /\ cwPc' = [cwPc EXCEPT ![cwI] = "select"]
    /\ cwI' = cwI + 1
    /\ UNCHANGED <<ctxDone, cwResults, cwMainPc, cwReceived, cwSent>>
    /\ FrameOf("cancel")

\* 03_advanced_goroutine.go:155: the loop is over; time.Sleep(500 ms) begins
Cancel_Sleep ==
    /\ cwMainPc = "launch"
    /\ cwI > numCancellable
    /\ cwMainPc' = "sleeping"
    /\ UNCHANGED <<cwPc, ctxDone, cwResults, cwI, cwReceived, cwSent>>
    /\ FrameOf("cancel")

\* 03_advanced_goroutine.go:159: the sleep is over; cancel()
Cancel_Cancel ==
    /\ cwMainPc = "sleeping"
    /\ ctxDone' = TRUE
    /\ cwMainPc' = "recv"
    /\ UNCHANGED <<cwPc, cwResults, cwI, cwReceived, cwSent>>
    /\ FrameOf("cancel")

\* 03_advanced_goroutine.go:162-164: msg := <-results, one of the messages
Cancel_Recv ==
    /\ cwMainPc = "recv"
    /\ cwReceived < numCancellable
    /\ CanRecv(cwResults)
    /\ cwResults' = Recv(cwResults)
    /\ cwReceived' = cwReceived + 1
    /\ UNCHANGED <<cwPc, ctxDone, cwMainPc, cwI, cwSent>>
    /\ FrameOf("cancel")

\* 03_advanced_goroutine.go:162-166: the loop is over; the function returns
Cancel_Return ==
    /\ cwMainPc = "recv"
    /\ cwReceived >= numCancellable
    /\ cwMainPc' = "returned"
    /\ UNCHANGED <<cwPc, ctxDone, cwResults, cwI, cwReceived, cwSent>>
    /\ FrameOf("cancel")

CancelMain ==
    \/ Cancel_Launch
    \/ Cancel_Sleep
    \/ Cancel_Cancel
    \/ Cancel_Recv
    \/ Cancel_Return

\* 03_advanced_goroutine.go:129-131: case <-ctx.Done()
CancelWorker_Observe(w) ==
    /\ cwPc[w] = "select"
    /\ CtxIsDone
    /\ cwPc' = [cwPc EXCEPT ![w] = "send"]
    /\ UNCHANGED <<ctxDone, cwResults, cwMainPc, cwI, cwReceived, cwSent>>
    /\ FrameOf("cancel")

\* 03_advanced_goroutine.go:134-136: default: time.Sleep(100 ms) begins
CancelWorker_Work(w) ==
    /\ cwPc[w] = "select"
    /\ ~CtxIsDone
    /\ cwPc' = [cwPc EXCEPT ![w] = "working"]
    /\ UNCHANGED <<ctxDone, cwResults, cwMainPc, cwI, cwReceived, cwSent>>
    /\ FrameOf("cancel")

\* 03_advanced_goroutine.go:136-137, 128: the sleep is over; next iteration
CancelWorker_Loop(w) ==
    /\ cwPc[w] = "working"
    /\ cwPc' = [cwPc EXCEPT ![w] = "select"]
    /\ UNCHANGED <<ctxDone, cwResults, cwMainPc, cwI, cwReceived, cwSent>>
    /\ FrameOf("cancel")

\* 03_advanced_goroutine.go:132-133: results <- ...; return. The send waits
\* while results is full.
CancelWorker_Send(w) ==
    /\ cwPc[w] = "send"
    /\ Len(cwResults.buf) < numCancellable
    /\ cwResults' = Send(cwResults, w)
    /\ cwSent' = [cwSent EXCEPT ![w] = @ + 1]
    /\ cwPc' = [cwPc EXCEPT ![w] = "returned"]
    /\ UNCHANGED <<ctxDone, cwMainPc, cwI, cwReceived>>
    /\ FrameOf("cancel")

CancelWorker(w) ==
    \/ CancelWorker_Observe(w)
    \/ CancelWorker_Work(w)
    \/ CancelWorker_Loop(w)
    \/ CancelWorker_Send(w)

CancelNext ==
    \/ Cancel_Launch
    \/ Cancel_Sleep
    \/ Cancel_Cancel
    \/ Cancel_Recv
    \/ Cancel_Return
    \/ \E w \in CancelWorkers : CancelWorker_Observe(w)
    \/ \E w \in CancelWorkers : CancelWorker_Work(w)
    \/ \E w \in CancelWorkers : CancelWorker_Loop(w)
    \/ \E w \in CancelWorkers : CancelWorker_Send(w)

CancelInit ==
    /\ InitIntegrated
    /\ InitCancel
    /\ InitDemosBut("cancel")

\* Every goroutine that can step eventually does: the launching function
\* and each worker are scheduled fairly.
CancelFairSpec ==
    /\ CancelInit
    /\ [][CancelNext]_vars
    /\ WF_vars(CancelMain)
    /\ \A w \in CancelWorkers : WF_vars(CancelWorker(w))

-----------------------------------------------------------------------------
(* contextTimeoutExample and taskWithTimeout                               *)
(* (03_advanced_goroutine.go:168-201) under a clock. A timer fires its     *)
(* duration, or up to MaxJitter later, after it was made; every other step *)
(* takes no time, and time passes only when no goroutine can step.         *)

\* Faulty variant: ctx.Done() can be received before the deadline.
DeadlineDue_Anytime == TRUE

\* 03_advanced_goroutine.go:174: ctx.Done() is closed
DeadlineDue == ctNow >= ctDeadline

\* 03_advanced_goroutine.go:191-196: wg.Add(1); go func(id, d). The new
\* goroutine calls taskWithTimeout, makes its timer (line 171) and arrives
\* at the select.
Ct_Launch ==
    /\ ctMainPc = "launch"
    /\ ctI <= Len(TaskDurations)
    /\ ctWg' = WgAdd(ctWg)
    /\ ctPc' = [ctPc EXCEPT ![ctI] = "select"]
    /\ \E j \in 0..MaxJitter :
          ctTimerAt' = [ctTimerAt EXCEPT ![ctI] = ctNow + TaskDurations[ctI] + j]
    /\ ctI' = ctI + 1
    /\ UNCHANGED <<ctNow, ctDeadline, ctOutcome, ctReturns, ctMainPc>>
    /\ FrameOf("timeout")

\* 03_advanced_goroutine.go:199: the loop is over; wg.Wait()
Ct_CallWait ==
    /\ ctMainPc = "launch"
    /\ ctI > Len(TaskDurations)
    /\ ctMainPc' = "wait"
    /\ UNCHANGED <<ctNow, ctDeadline, ctPc, ctTimerAt, ctOutcome, ctReturns,
                   ctWg, ctI>>
    /\ FrameOf("timeout")

\* 03_advanced_goroutine.go:199-201: wg.Wait() returns
Ct_Wait ==
    /\ ctMainPc = "wait"
    /\ ctWg = 0
    /\ ctMainPc' = "returned"
    /\ UNCHANGED <<ctNow, ctDeadline, ctPc, ctTimerAt, ctOutcome, ctReturns,
                   ctWg, ctI>>
    /\ FrameOf("timeout")

\* 03_advanced_goroutine.go:171-173: case <-time.After(duration): return nil
CtTask_Complete(k) ==
    /\ ctPc[k] = "select"
    /\ ctNow >= ctTimerAt[k]
    /\ ctOutcome' = [ctOutcome EXCEPT ![k] = "nil"]
    /\ ctReturns' = [ctReturns EXCEPT ![k] = @ + 1]
    /\ ctPc' = [ctPc EXCEPT ![k] = "done"]
    /\ UNCHANGED <<ctNow, ctDeadline, ctTimerAt, ctWg, ctMainPc, ctI>>
    /\ FrameOf("timeout")

\* 03_advanced_goroutine.go:174-176: case <-ctx.Done(): return ctx.Err()
CtTask_Timeout(k) ==
    /\ ctPc[k] = "select"
    /\ DeadlineDue
    /\ ctOutcome' = [ctOutcome EXCEPT ![k] = "err"]
    /\ ctReturns' = [ctReturns EXCEPT ![k] = @ + 1]
    /\ ctPc' = [ctPc EXCEPT ![k] = "done"]
    /\ UNCHANGED <<ctNow, ctDeadline, ctTimerAt, ctWg, ctMainPc, ctI>>
    /\ FrameOf("timeout")

\* 03_advanced_goroutine.go:194: the deferred wg.Done()
CtTask_Done(k) ==
    /\ ctPc[k] = "done"
    /\ ctWg' = WgDone(ctWg)
    /\ ctPc' = [ctPc EXCEPT ![k] = "exited"]
    /\ UNCHANGED <<ctNow, ctDeadline, ctTimerAt, ctOutcome, ctReturns,
                   ctMainPc, ctI>>
    /\ FrameOf("timeout")

CtStep ==
    \/ Ct_Launch
    \/ Ct_CallWait
    \/ Ct_Wait
    \/ \E k \in TimedTasks : CtTask_Complete(k)
    \/ \E k \in TimedTasks : CtTask_Timeout(k)
    \/ \E k \in TimedTasks : CtTask_Done(k)

\* The instants at which a timer that a task waits for fires.
CtPending ==
    IF \E k \in TimedTasks : ctPc[k] = "select"
      THEN {ctDeadline}
           \cup {ctTimerAt[k] : k \in {x \in TimedTasks : ctPc[x] = "select"}}
      ELSE {}

\* Time passes to the next such instant.
Ct_Advance ==
    /\ ~ENABLED CtStep
    /\ \E t \in CtPending :
          /\ t > ctNow
          /\ \A u \in CtPending : t <= u
          /\ ctNow' = t
    /\ UNCHANGED <<ctDeadline, ctPc, ctTimerAt, ctOutcome, ctReturns, ctWg,
                   ctMainPc, ctI>>
    /\ FrameOf("timeout")

TimeoutNext == CtStep \/ Ct_Advance

TimeoutInit ==
    /\ InitIntegrated
    /\ InitTimeout
    /\ InitDemosBut("timeout")

TimeoutSpec == TimeoutInit /\ [][TimeoutNext]_vars

-----------------------------------------------------------------------------
(* fanInFanOutExample, producer and fanOutWorker                           *)
(* (03_advanced_goroutine.go:73-124). input and output are unbuffered: a   *)
(* send completes together with a receive.                                 *)

\* Faulty variant: the worker passes the number on unchanged.
Squared_Identity(n) == n

\* 03_advanced_goroutine.go:86: result := num * num
Squared(n) == n * n

\* 03_advanced_goroutine.go:102: go producer(input, 10); i := 1
Fan_LaunchProducer ==
    /\ fanMainPc = "launchProducer"
    /\ fanProdPc' = "send"
    /\ fanProdI' = 1
    /\ fanMainPc' = "launchWorkers"
    /\ UNCHANGED <<fanInputClosed, fanPc, fanResult, fanWg, fanOutputClosed,
                   fanCloserPc, fanI, fanSum, fanSquared>>
    /\ FrameOf("fan")

\* 03_advanced_goroutine.go:106-109: wg.Add(1); go fanOutWorker(w, ...)
Fan_LaunchWorker ==
    /\ fanMainPc = "launchWorkers"
    /\ fanI <= fanNumWorkers
    /\ fanWg' = WgAdd(fanWg)
    /\ fanPc' = [fanPc EXCEPT ![fanI] = "range"]
    /\ fanI' = fanI + 1
    /\ UNCHANGED <<fanProdPc, fanProdI, fanInputClosed, fanResult,
                   fanOutputClosed, fanCloserPc, fanMainPc, fanSum, fanSquared>>
    /\ FrameOf("fan")

\* 03_advanced_goroutine.go:112, 119: go func() { wg.Wait(); close(output) }();
\* sum := 0
Fan_LaunchCloser ==
    /\ fanMainPc = "launchWorkers"
    /\ fanI > fanNumWorkers
    /\ fanCloserPc' = "wait"
    /\ fanMainPc' = "range"
    /\ UNCHANGED <<fanProdPc, fanProdI, fanInputClosed, fanPc, fanResult, fanWg,
                   fanOutputClosed, fanI, fanSum, fanSquared>>
    /\ FrameOf("fan")

\* 03_advanced_goroutine.go:76 with 84-86: ch <- i meets a worker's receive
\* from input; the worker squares the number.
FanProducer_Send(w) ==
    /\ fanProdPc = "send"
    /\ fanProdI <= fanCount
    /\ fanPc[w] = "range"
    /\ fanResult' = [fanResult EXCEPT ![w] = Squared(fanProdI)]
    /\ fanSquared' = [fanSquared EXCEPT ![fanProdI] = @ + 1]
    /\ fanPc' = [fanPc EXCEPT ![w] = "send"]
    /\ fanProdI' = fanProdI + 1
    /\ UNCHANGED <<fanProdPc, fanInputClosed, fanWg, fanOutputClosed,
                   fanCloserPc, fanMainPc, fanI, fanSum>>
    /\ FrameOf("fan")

\* 03_advanced_goroutine.go:75-78: the loop is over; close(ch)
FanProducer_Close ==
    /\ fanProdPc = "send"
    /\ fanProdI > fanCount
    /\ fanInputClosed' = TRUE
    /\ fanProdPc' = "exited"
    /\ UNCHANGED <<fanProdI, fanPc, fanResult, fanWg, fanOutputClosed,
                   fanCloserPc, fanMainPc, fanI, fanSum, fanSquared>>
    /\ FrameOf("fan")

\* 03_advanced_goroutine.go:89 with 120-121: output <- result meets the
\* collector's receive; sum += result
FanWorker_Send(w) ==
    /\ fanPc[w] = "send"
    /\ fanMainPc = "range"
    /\ ~fanOutputClosed
    /\ fanSum' = fanSum + fanResult[w]
    /\ fanPc' = [fanPc EXCEPT ![w] = "range"]
    /\ UNCHANGED <<fanProdPc, fanProdI, fanInputClosed, fanResult, fanWg,
                   fanOutputClosed, fanCloserPc, fanMainPc, fanI, fanSquared>>
    /\ FrameOf("fan")

\* 03_advanced_goroutine.go:84: input is closed; the range loop ends
FanWorker_EndOfStream(w) ==
    /\ fanPc[w] = "range"
    /\ fanInputClosed
    /\ fanPc' = [fanPc EXCEPT ![w] = "done"]
    /\ UNCHANGED <<fanProdPc, fanProdI, fanInputClosed, fanResult, fanWg,
                   fanOutputClosed, fanCloserPc, fanMainPc, fanI, fanSum,
                   fanSquared>>
    /\ FrameOf("fan")

\* 03_advanced_goroutine.go:82: the deferred wg.Done()
FanWorker_Done(w) ==
    /\ fanPc[w] = "done"
    /\ fanWg' = WgDone(fanWg)
    /\ fanPc' = [fanPc EXCEPT ![w] = "exited"]
    /\ UNCHANGED <<fanProdPc, fanProdI, fanInputClosed, fanResult,
                   fanOutputClosed, fanCloserPc, fanMainPc, fanI, fanSum,
                   fanSquared>>
    /\ FrameOf("fan")

\* 03_advanced_goroutine.go:113: wg.Wait() returns
FanCloser_Wait ==
    /\ fanCloserPc = "wait"
    /\ fanWg = 0
    /\ fanCloserPc' = "close"
    /\ UNCHANGED <<fanProdPc, fanProdI, fanInputClosed, fanPc, fanResult, fanWg,
                   fanOutputClosed, fanMainPc, fanI, fanSum, fanSquared>>
    /\ FrameOf("fan")

\* 03_advanced_goroutine.go:114: close(output)
FanCloser_Close ==
    /\ fanCloserPc = "close"
    /\ fanOutputClosed' = TRUE
    /\ fanCloserPc' = "exited"
    /\ UNCHANGED <<fanProdPc, fanProdI, fanInputClosed, fanPc, fanResult, fanWg,
                   fanMainPc, fanI, fanSum, fanSquared>>
    /\ FrameOf("fan")

\* 03_advanced_goroutine.go:120-123: output is closed; the sum is printed
Fan_EndOfStream ==
    /\ fanMainPc = "range"
    /\ fanOutputClosed
    /\ fanMainPc' = "returned"
    /\ UNCHANGED <<fanProdPc, fanProdI, fanInputClosed, fanPc, fanResult, fanWg,
                   fanOutputClosed, fanCloserPc, fanI, fanSum, fanSquared>>
    /\ FrameOf("fan")

FanNext ==
    \/ Fan_LaunchProducer
    \/ Fan_LaunchWorker
    \/ Fan_LaunchCloser
    \/ FanProducer_Close
    \/ FanCloser_Wait
    \/ FanCloser_Close
    \/ Fan_EndOfStream
    \/ \E w \in FanWorkers : FanProducer_Send(w)
    \/ \E w \in FanWorkers : FanWorker_Send(w)
    \/ \E w \in FanWorkers : FanWorker_EndOfStream(w)
    \/ \E w \in FanWorkers : FanWorker_Done(w)

FanInit ==
    /\ InitIntegrated
    /\ InitFan
    /\ InitDemosBut("fan")

\* Every goroutine that can step eventually does; no step of this program
\* leads back to an earlier state.
FanFairSpec == FanInit /\ [][FanNext]_vars /\ WF_vars(FanNext)

-----------------------------------------------------------------------------
(* workerPoolExample and workerPool (03_advanced_goroutine.go:22-71);      *)
(* solution6 (solutions.go:166-213) and pipelineExample with processor     *)
(* (main.go:553-595) have the same statements in the same order.           *)

\* 03_advanced_goroutine.go:50-53: wg.Add(1); go workerPool(w, ...)
Wp_LaunchWorker ==
    /\ wpMainPc = "launchWorkers"
    /\ wpI <= wpNumWorkers
    /\ wpWg' = WgAdd(wpWg)
    /\ wpPc' = [wpPc EXCEPT ![wpI] = "range"]
    /\ wpI' = wpI + 1
    /\ UNCHANGED <<wpJobs, wpResults, wpJob, wpCloserPc, wpMainPc,
                   wpProcessed, wpGot>>
    /\ FrameOf("wp")

\* 03_advanced_goroutine.go:56: j := 1
Wp_StartSending ==
    /\ wpMainPc = "launchWorkers"
    /\ wpI > wpNumWorkers
    /\ wpMainPc' = "send"
    /\ wpI' = 1
    /\ UNCHANGED <<wpJobs, wpResults, wpPc, wpJob, wpWg, wpCloserPc,
                   wpProcessed, wpGot>>
    /\ FrameOf("wp")

\* 03_advanced_goroutine.go:56-58: jobs <- Job{ID: j, ...}; blocks while jobs
\* is full
Wp_SendJob ==
    /\ wpMainPc = "send"
    /\ wpI <= wpNumJobs
    /\ Len(wpJobs.buf) < WpCap
    /\ wpJobs' = Send(wpJobs, wpI)
    /\ wpI' = wpI + 1
    /\ UNCHANGED <<wpResults, wpPc, wpJob, wpWg, wpCloserPc, wpMainPc,
                   wpProcessed, wpGot>>
    /\ FrameOf("wp")

\* 03_advanced_goroutine.go:59-65: close(jobs); go func() { wg.Wait();
\* close(results) }()
Wp_CloseJobs ==
    /\ wpMainPc = "send"
    /\ wpI > wpNumJobs
    /\ wpJobs' = Close(wpJobs)
    /\ wpCloserPc' = "wait"
    /\ wpMainPc' = "range"
    /\ UNCHANGED <<wpResults, wpPc, wpJob, wpWg, wpI, wpProcessed, wpGot>>
    /\ FrameOf("wp")

\* 03_advanced_goroutine.go:25-32: the worker receives a job and builds its
\* result
WpWorker_Recv(w) ==
    /\ wpPc[w] = "range"
    /\ CanRecv(wpJobs)
    /\ wpJob' = [wpJob EXCEPT ![w] = Head(wpJobs.buf)]
    /\ wpProcessed' = [wpProcessed EXCEPT ![Head(wpJobs.buf)] = @ + 1]
    /\ wpJobs' = Recv(wpJobs)
    /\ wpPc' = [wpPc EXCEPT ![w] = "send"]
    /\ UNCHANGED <<wpResults, wpWg, wpCloserPc, wpMainPc, wpI, wpGot>>
    /\ FrameOf("wp")

\* 03_advanced_goroutine.go:33: results <- result; blocks while results is
\* full
WpWorker_Send(w) ==
    /\ wpPc[w] = "send"
    /\ ~wpResults.closed
    /\ Len(wpResults.buf) < WpCap
    /\ wpResults' = Send(wpResults, wpJob[w])
    /\ wpPc' = [wpPc EXCEPT ![w] = "range"]
    /\ UNCHANGED <<wpJobs, wpJob, wpWg, wpCloserPc, wpMainPc, wpI,
                   wpProcessed, wpGot>>
    /\ FrameOf("wp")

\* 03_advanced_goroutine.go:25: jobs is closed and drained
WpWorker_EndOfStream(w) ==
    /\ wpPc[w] = "range"
    /\ EndOfStream(wpJobs)
    /\ wpPc' = [wpPc EXCEPT ![w] = "done"]
    /\ UNCHANGED <<wpJobs, wpResults, wpJob, wpWg, wpCloserPc, wpMainPc,
                   wpI, wpProcessed, wpGot>>
    /\ FrameOf("wp")

\* 03_advanced_goroutine.go:23: the deferred wg.Done()
WpWorker_Done(w) ==
    /\ wpPc[w] = "done"
    /\ wpWg' = WgDone(wpWg)
    /\ wpPc' = [wpPc EXCEPT ![w] = "exited"]
    /\ UNCHANGED <<wpJobs, wpResults, wpJob, wpCloserPc, wpMainPc, wpI,
                   wpProcessed, wpGot>>
    /\ FrameOf("wp")

\* 03_advanced_goroutine.go:63: wg.Wait() returns
WpCloser_Wait ==
    /\ wpCloserPc = "wait"
    /\ wpWg = 0
    /\ wpCloserPc' = "close"
    /\ UNCHANGED <<wpJobs, wpResults, wpPc, wpJob, wpWg, wpMainPc, wpI,
                   wpProcessed, wpGot>>
    /\ FrameOf("wp")

\* 03_advanced_goroutine.go:64: close(results)
WpCloser_Close ==
    /\ wpCloserPc = "close"
    /\ wpResults' = Close(wpResults)
    /\ wpCloserPc' = "exited"
    /\ UNCHANGED <<wpJobs, wpPc, wpJob, wpWg, wpMainPc, wpI, wpProcessed,
                   wpGot>>
    /\ FrameOf("wp")

\* 03_advanced_goroutine.go:68-70: the collector receives a result
Wp_Collect ==
    /\ wpMainPc = "range"
    /\ CanRecv(wpResults)
    /\ wpGot' = [wpGot EXCEPT ![Head(wpResults.buf)] = @ + 1]
    /\ wpResults' = Recv(wpResults)
    /\ UNCHANGED <<wpJobs, wpPc, wpJob, wpWg, wpCloserPc, wpMainPc, wpI,
                   wpProcessed>>
    /\ FrameOf("wp")

\* 03_advanced_goroutine.go:68-71: results is closed and drained
Wp_EndOfStream ==
    /\ wpMainPc = "range"
    /\ EndOfStream(wpResults)
    /\ wpMainPc' = "returned"
    /\ UNCHANGED <<wpJobs, wpResults, wpPc, wpJob, wpWg, wpCloserPc, wpI,
                   wpProcessed, wpGot>>
    /\ FrameOf("wp")

WpNext ==
    \/ Wp_LaunchWorker
    \/ Wp_StartSending
    \/ Wp_SendJob
    \/ Wp_CloseJobs
    \/ WpCloser_Wait
    \/ WpCloser_Close
    \/ Wp_Collect
    \/ Wp_EndOfStream
    \/ \E w \in WpWorkers : WpWorker_Recv(w)
    \/ \E w \in WpWorkers : WpWorker_Send(w)
    \/ \E w \in WpWorkers : WpWorker_EndOfStream(w)
    \/ \E w \in WpWorkers : WpWorker_Done(w)

WpInit ==
    /\ InitIntegrated
    /\ InitWp
    /\ InitDemosBut("wp")

\* Every goroutine that can step eventually does; no step of this program
\* leads back to an earlier state.
WpFairSpec == WpInit /\ [][WpNext]_vars /\ WF_vars(WpNext)

-----------------------------------------------------------------------------
(* demonstratePipeline with pipelineStage1 and pipelineStage2              *)
(* (main.go:55-73, 155-179) and solution10 (solutions.go:326-363). Every   *)
(* channel is unbuffered: a send completes together with a receive.        *)

\* main.go:69: fmt.Sprintf("Result: %d", num)
Sprintf(num) == <<"Result: ", num>>

\* main.go:59, 69; solutions.go:340: what stage k makes of the value v.
StageResult(p, k, v) == IF k = 1 THEN v * v ELSE Sprintf(v)

\* Faulty variant: a stage may leave its loop at any time.
InputDone_Anytime(p, k) == TRUE

\* main.go:57, 67; solutions.go:339: the range loop of stage k ends when its
\* input is closed.
InputDone(p, k) == (k - 1) \in plClosed[p]

\* main.go:164-168; solutions.go:358-359: the next go statement. After the
\* last one the function enters its receive loop.
Pl_Launch(p) ==
    /\ plMainPc[p] = "launch"
    /\ LET g == PlLaunches(p)[plLaunched[p] + 1]
       IN  plPc' = [plPc EXCEPT ![p][g] = IF g = 0 THEN "send" ELSE "range"]
    /\ plLaunched' = [plLaunched EXCEPT ![p] = @ + 1]
    /\ plMainPc' = [plMainPc EXCEPT
                      ![p] = IF plLaunched[p] + 1 = Len(PlLaunches(p))
                             THEN "range" ELSE "launch"]
    /\ UNCHANGED <<plVal, plClosed, plI, plOut>>
    /\ FrameOf("pl")

\* main.go:169-171 with 57-59; solutions.go:331-333 with 339-340: the send
\* of i meets the receive of stage 1.
PlSender_Send(p) ==
    /\ plPc[p][0] = "send"
    /\ plI[p] <= PlCount(p)
    /\ plPc[p][1] = "range"
    /\ plVal' = [plVal EXCEPT ![p][1] = StageResult(p, 1, plI[p])]
    /\ plPc' = [plPc EXCEPT ![p][1] = "send"]
    /\ plI' = [plI EXCEPT ![p] = @ + 1]
    /\ UNCHANGED <<plClosed, plMainPc, plLaunched, plOut>>
    /\ FrameOf("pl")

\* main.go:172; solutions.go:334: the loop is over; close(stage1Input)
PlSender_Close(p) ==
    /\ plPc[p][0] = "send"
    /\ plI[p] > PlCount(p)
    /\ plClosed' = [plClosed EXCEPT ![p] = @ \cup {0}]
    /\ plPc' = [plPc EXCEPT ![p][0] = "exited"]
    /\ UNCHANGED <<plVal, plI, plMainPc, plLaunched, plOut>>
    /\ FrameOf("pl")

\* main.go:60 with 67-69: output <- result of stage k meets the receive of
\* stage k + 1.
PlStage_Forward(p, k) ==
    /\ k < PlNumStages(p)
    /\ plPc[p][k] = "send"
    /\ plPc[p][k + 1] = "range"
    /\ plVal' = [plVal EXCEPT ![p][k + 1] = StageResult(p, k + 1, plVal[p][k])]
    /\ plPc' = [plPc EXCEPT ![p][k] = "range", ![p][k + 1] = "send"]
    /\ UNCHANGED <<plClosed, plI, plMainPc, plLaunched, plOut>>
    /\ FrameOf("pl")

\* main.go:70 with 176-177; solutions.go:340 with 347-348: the send of the
\* last stage meets the receive of the final consumer.
PlStage_Deliver(p) ==
    /\ plPc[p][PlNumStages(p)] = "send"
    /\ plMainPc[p] = "range"
    /\ plOut' = [plOut EXCEPT ![p] = Append(@, plVal[p][PlNumStages(p)])]
    /\ plPc' = [plPc EXCEPT ![p][PlNumStages(p)] = "range"]
    /\ UNCHANGED <<plVal, plClosed, plI, plMainPc, plLaunched>>
    /\ FrameOf("pl")

\* main.go:57-62, 67-72; solutions.go:339-342: the range loop ends;
\* close(output)
PlStage_Close(p, k) ==
    /\ plPc[p][k] = "range"
    /\ InputDone(p, k)
    /\ plClosed' = [plClosed EXCEPT ![p] = @ \cup {k}]
    /\ plPc' = [plPc EXCEPT ![p][k] = "exited"]
    /\ UNCHANGED <<plVal, plI, plMainPc, plLaunched, plOut>>
    /\ FrameOf("pl")

\* main.go:176-179; solutions.go:347-351: the last channel is closed; the
\* receive loop ends
Pl_EndOfStream(p) ==
    /\ plMainPc[p] = "range"
    /\ PlNumStages(p) \in plClosed[p]
    /\ plMainPc' = [plMainPc EXCEPT ![p] = "returned"]
    /\ UNCHANGED <<plPc, plVal, plClosed, plI, plLaunched, plOut>>
    /\ FrameOf("pl")

PlNext ==
    \/ \E p \in Pipelines : Pl_Launch(p)
    \/ \E p \in Pipelines : PlSender_Send(p)
    \/ \E p \in Pipelines : PlSender_Close(p)
    \/ \E p \in Pipelines : \E k \in PlStages(p) : PlStage_Forward(p, k)
    \/ \E p \in Pipelines : PlStage_Deliver(p)
    \/ \E p \in Pipelines : \E k \in PlStages(p) : PlStage_Close(p, k)
    \/ \E p \in Pipelines : Pl_EndOfStream(p)

PlInit ==
    /\ InitIntegrated
    /\ InitPl
    /\ InitDemosBut("pl")

\* Every goroutine that can step eventually does; no step of these programs
\* leads back to an earlier state.
PlFairSpec == PlInit /\ [][PlNext]_vars /\ WF_vars(PlNext)

-----------------------------------------------------------------------------
(* demonstrateSelect (main.go:182-210), selectExample (main.go:598-626)    *)
(* and solution7 (solutions.go:219-250). A timer lasts its duration and up *)
(* to MaxJitter more, a sleep its duration and SelLateness more; time      *)
(* passes only when no goroutine can step.                                 *)

\* main.go:189-192: go func() { time.Sleep(...); ... }(), the first sender
Sel_LaunchFirst(p) ==
    /\ selMainPc[p] = "launch"
    /\ selLaunched[p] = 0
    /\ \E j \in SelLateness(p) :
          /\ selWake' = [selWake EXCEPT ![p][1] = selNow + SelDelay(p, 1) + j]
          /\ selLate' = [selLate EXCEPT ![p] = @ \/ j > MaxJitter]
    /\ selPc' = [selPc EXCEPT ![p][1] = "sleep"]
    /\ selLaunched' = [selLaunched EXCEPT ![p] = 1]
    /\ UNCHANGED <<selNow, selMainPc, selI, selTimerAt, selLog>>
    /\ FrameOf("sel")

\* main.go:194-206: the second sender; i := 0; the select is entered and its
\* time.After starts
Sel_LaunchSecond(p) ==
    /\ selMainPc[p] = "launch"
    /\ selLaunched[p] = 1
    /\ \E j \in SelLateness(p) :
          /\ selWake' = [selWake EXCEPT ![p][2] = selNow + SelDelay(p, 2) + j]
          /\ selLate' = [selLate EXCEPT ![p] = @ \/ j > MaxJitter]
    /\ selPc' = [selPc EXCEPT ![p][2] = "sleep"]
    /\ selLaunched' = [selLaunched EXCEPT ![p] = 2]
    /\ selMainPc' = [selMainPc EXCEPT ![p] = "select"]
    /\ \E j \in 0..MaxJitter :
          selTimerAt' = [selTimerAt EXCEPT ![p] = selNow + SelTimeout(p) + j]
    /\ UNCHANGED <<selNow, selI, selLog>>
    /\ FrameOf("sel")

\* main.go:190-191: time.Sleep returns; the sender offers its message
SelSender_Wake(p, c) ==
    /\ selPc[p][c] = "sleep"
    /\ selNow >= selWake[p][c]
    /\ selPc' = [selPc EXCEPT ![p][c] = "send"]
    /\ UNCHANGED <<selNow, selWake, selMainPc, selLaunched, selI, selTimerAt,
                   selLog, selLate>>
    /\ FrameOf("sel")

\* main.go:200-208: the iteration is over; either the loop ends or the next
\* select is entered and a new time.After starts.
SelIterate(p) ==
    /\ selI' = [selI EXCEPT ![p] = @ + 1]
    /\ IF selI[p] + 1 < 2
       THEN /\ \E j \in 0..MaxJitter :
                  selTimerAt' = [selTimerAt EXCEPT
                                   ![p] = selNow + SelTimeout(p) + j]
            /\ UNCHANGED selMainPc
       ELSE /\ selMainPc' = [selMainPc EXCEPT ![p] = "returned"]
            /\ UNCHANGED selTimerAt

\* main.go:191 with 202-205: the send of sender c meets the receive of the
\* select
Sel_Receive(p, c) ==
    /\ selMainPc[p] = "select"
    /\ selPc[p][c] = "send"
    /\ selLog' = [selLog EXCEPT ![p] = Append(@, IF c = 1 THEN "ch1" ELSE "ch2")]
    /\ selPc' = [selPc EXCEPT ![p][c] = "exited"]
    /\ SelIterate(p)
    /\ UNCHANGED <<selNow, selWake, selLaunched, selLate>>
    /\ FrameOf("sel")

\* main.go:206-207: the time.After of the select fires
Sel_Timeout(p) ==
    /\ selMainPc[p] = "select"
    /\ selNow >= selTimerAt[p]
    /\ selLog' = [selLog EXCEPT ![p] = Append(@, "timeout")]
    /\ SelIterate(p)
    /\ UNCHANGED <<selNow, selPc, selWake, selLaunched, selLate>>
    /\ FrameOf("sel")

SelStep ==
    \/ \E p \in Selects : Sel_LaunchFirst(p)
    \/ \E p \in Selects : Sel_LaunchSecond(p)
    \/ \E p \in Selects : \E c \in SelSenders : SelSender_Wake(p, c)
    \/ \E p \in Selects : \E c \in SelSenders : Sel_Receive(p, c)
    \/ \E p \in Selects : Sel_Timeout(p)

\* The instants at which a sleep ends or a timer that a select waits for
\* fires.
SelPending ==
    UNION {{selWake[p][c] : c \in {x \in SelSenders : selPc[p][x] = "sleep"}} :
              p \in Selects}
    \cup {selTimerAt[p] : p \in {x \in Selects : selMainPc[x] = "select"}}

\* Time passes to the next such instant.
Sel_Advance ==
    /\ ~ENABLED SelStep
    /\ \E t \in SelPending :
          /\ t > selNow
          /\ \A u \in SelPending : t <= u
          /\ selNow' = t
    /\ UNCHANGED <<selPc, selWake, selMainPc, selLaunched, selI, selTimerAt,
                   selLog, selLate>>
    /\ FrameOf("sel")

SelNext == SelStep \/ Sel_Advance

SelInit ==
    /\ InitIntegrated
    /\ InitSel
    /\ InitDemosBut("sel")

\* Every goroutine that can step eventually does, and time passes.
SelFairSpec == SelInit /\ [][SelNext]_vars /\ WF_vars(SelNext)

-----------------------------------------------------------------------------
(* Properties of the integrated pipeline.                                  *)

\* main has received done (main.go:402): the run is complete.
Completed == mainPc \in {"printLock", "print", "returned"}

LaunchedWorkers == 1..cfg.workers

\* The sources held by a channel buffer.
SourcesOf(buf) == {buf[i].Source : i \in 1..Len(buf)}

\* C1: when the run completes (main has received done and prints the
\* statistics), totalFetched + errors equals the number of sources, and
\* that is what Stats.Print shows.
C1_FetchedPlusErrorsIsN ==
    /\ Completed => stats.totalFetched + stats.errors = NumSources
    /\ mainPc = "returned" => shown[1] + shown[3] = NumSources

\* A completed run in which one fetch succeeded and another timed out.
C1_Witness ==
    /\ mainPc = "returned"
    /\ shown[1] > 0
    /\ shown[3] > 0

\* C2: totalProcessed never exceeds totalFetched, and when the run is
\* complete the two are equal.
C2_ProcessedAtMostFetched ==
    /\ stats.totalProcessed <= stats.totalFetched
    /\ Completed => stats.totalProcessed = stats.totalFetched

\* A complete run in which every source was fetched and processed.
C2_Witness ==
    /\ Completed
    /\ stats.totalProcessed = NumSources

\* C3: for every worker count >= 1 and every channel capacity >= 1, under
\* fair scheduling and with every fetch completing or timing out, the
\* pipeline eventually reaches Done: main receives done and Stats.Print
\* returns.
C3_ReachesDone == <>(mainPc = "returned")

\* A finished run with one worker and channels smaller than the number of
\* sources, in which a fetch timed out.
C3_Witness ==
    /\ mainPc = "returned"
    /\ cfg.workers = 1
    /\ cfg.capacity < NumSources
    /\ stats.errors > 0

\* C4: every invocation of fetchWithTimeout reports exactly one outcome and
\* increments exactly one of totalFetched / errors, once: a response goes
\* with one increment of totalFetched, an error with one of errors, and an
\* invocation that has not returned has incremented nothing. The counters
\* are the numbers of invocations that reported each outcome.
C4_ExactlyOneOutcome ==
    /\ \A s \in Sources :
          /\ ret[s] = "none" => incs[s] = [fetched |-> 0, errors |-> 0]
          /\ ret[s] = "response" => incs[s] = [fetched |-> 1, errors |-> 0]
          /\ ret[s] = "error" => incs[s] = [fetched |-> 0, errors |-> 1]
          /\ fetchPc[s] \in {"send", "done", "exited"} => ret[s] # "none"
    /\ stats.totalFetched = Cardinality({s \in Sources : ret[s] = "response"})
    /\ stats.errors = Cardinality({s \in Sources : ret[s] = "error"})

\* An invocation that returned a response although its timer had fired while
\* it was at the select (both cases were ready), and one that returned an
\* error although its response was ready.
C4_Witness ==
    /\ \E s \in Sources : ret[s] = "response" /\ timer[s]
    /\ \E s \in Sources :
          ret[s] = "error" /\ Len(responseChan[s]) = 1 /\ s \notin late

\* C5: once the deadline case is taken, the response of that invocation is
\* never read: if the simulated fetch has sent it, it is still in
\* responseChan; the invocation has not incremented totalFetched and is
\* counted in errors, once.
C5_LateResponseDiscarded ==
    \A s \in Sources :
        TookDeadline(s) =>
            /\ inner[s] = "exited" => responseChan[s] = <<s>>
            /\ incs[s].fetched = 0
            /\ incs[s].errors <= 1
            /\ ret[s] = "error" => incs[s].errors = 1
            /\ ret[s] # "response"
            /\ fetchPc[s] \in {"errorsLock", "errorsInc", "done", "exited"}

\* The response was sent after the deadline case had been taken and the
\* invocation had returned its error.
C5_Witness ==
    \E s \in Sources :
        /\ s \in late
        /\ ret[s] = "error"
        /\ fetchPc[s] = "exited"
        /\ responseChan[s] = <<s>>

\* C6: a source whose fetch timed out is counted in errors, is in neither
\* channel nor in a worker's hands, is not fetched again and has no result
\* output; the pipeline does not abort, and when the run is complete every
\* source whose fetch succeeded has exactly one result output.
C6_TimeoutDropsItem ==
    /\ \A s \in Sources :
          ret[s] = "error" =>
              /\ incs[s].errors = 1
              /\ fetchPc[s] \in {"done", "exited"}
              /\ \A i \in 1..Len(fetchedData.buf) : fetchedData.buf[i] # s
              /\ s \notin SourcesOf(processedData.buf)
              /\ \A w \in Workers : job[w] # s
              /\ printed[s] = 0
    /\ panicked = ""
    /\ Completed =>
          \A s \in Sources :
              /\ ret[s] \in {"response", "error"}
              /\ ret[s] = "response" => printed[s] = 1

\* A complete run in which one source timed out and another was output.
C6_Witness ==
    /\ Completed
    /\ \E s, u \in Sources : ret[s] = "error" /\ printed[u] = 1

\* C7: a fetch goroutine whose simulated fetch never completes still gets a
\* timeout error, calls fetchWg.Done and exits; fetchedData is then closed
\* and the run completes.
C7_HungFetchTimesOut ==
    \A s \in Sources :
        [](inner[s] # "exited") =>
            <>(/\ ret[s] = "error"
               /\ fetchPc[s] = "exited"
               /\ fetchedData.closed
               /\ mainPc = "returned")

\* The run is over and a simulated fetch has still not completed.
C7_Witness ==
    \E s \in Sources :
        /\ inner[s] = "sleeping"
        /\ ret[s] = "error"
        /\ mainPc = "returned"

\* C8: fetchedData is closed only after every fetch goroutine has finished,
\* and a worker is past the end of fetchedData only then.
C8_CloseAfterAllFetches ==
    /\ (fetchCloserPc = "close" \/ fetchedData.closed) =>
          \A s \in Sources : fetchPc[s] = "exited"
    /\ \A w \in Workers :
          workerPc[w] \in {"done", "exited"} =>
              /\ fetchedData.closed
              /\ \A s \in Sources : fetchPc[s] = "exited"

\* A worker has seen the end of fetchedData after a fetch goroutine sent.
C8_Witness ==
    /\ \E w \in Workers : workerPc[w] = "done"
    /\ \E s \in Sources : ret[s] = "response"

\* C9: processedData is closed exactly once, by the closer goroutine after
\* processWg.Wait has returned, when every worker has exited; no worker
\* closes it.
C9_ProcessedClosedOnce ==
    /\ closeCalls.processedData <= 1
    /\ processedData.closed <=> procCloserPc = "exited"
    /\ processedData.closed => closeCalls.processedData = 1
    /\ procCloserPc \in {"close", "exited"} =>
          \A w \in LaunchedWorkers : workerPc[w] = "exited"
    /\ Completed => processedData.closed

\* processedData is closed and the workers, which processed something, are
\* gone.
C9_Witness ==
    /\ processedData.closed
    /\ stats.totalProcessed > 0
    /\ \A w \in LaunchedWorkers : workerPc[w] = "exited"

\* C10: no goroutine sends on fetchedData or processedData after the channel
\* has been closed and neither channel is closed twice: the program never
\* panics.
C10_NoUseAfterClose ==
    /\ panicked = ""
    /\ \A s \in Sources : fetchPc[s] = "send" => ~fetchedData.closed
    /\ \A w \in Workers : workerPc[w] = "send" => ~processedData.closed
    /\ closeCalls.fetchedData <= 1
    /\ closeCalls.processedData <= 1

\* Both channels are closed in a run with a timeout and a successful fetch.
C10_Witness ==
    /\ closeCalls = [fetchedData |-> 1, processedData |-> 1]
    /\ \E s \in Sources : ret[s] = "error"
    /\ \E s \in Sources : printed[s] = 1

\* How many workers hold source s, and how often it sits in each channel.
HeldBy(s) == Cardinality({w \in Workers : job[w] = s})

InFetched(s) ==
    Cardinality({i \in 1..Len(fetchedData.buf) : fetchedData.buf[i] = s})

InProcessed(s) ==
    Cardinality({i \in 1..Len(processedData.buf) :
                    processedData.buf[i].Source = s})

\* The fetch goroutine of s has sent its response to fetchedData.
HasSent(s) == ret[s] = "response" /\ fetchPc[s] \in {"done", "exited"}

\* C11: a response sent to fetchedData is received by exactly one worker:
\* at any time it is in exactly one place (fetchedData, one worker's hands,
\* processedData as one ProcessedData, or output), so a source yields at
\* most one ProcessedData; a source that was not sent is nowhere.
C11_OneWorkerPerItem ==
    \A s \in Sources :
        /\ InFetched(s) + HeldBy(s) + InProcessed(s) + printed[s]
              = IF HasSent(s) THEN 1 ELSE 0
        /\ InProcessed(s) + printed[s] <= 1

\* Two workers hold two different items at once, taken from the one channel.
C11_Witness ==
    \E w, x \in Workers :
        /\ w # x
        /\ job[w] # 0
        /\ job[x] # 0
        /\ job[w] # job[x]

\* C12: every ProcessedData sent to processedData is output at most once by
\* outputPipeline, which sends done only when processedData is closed and
\* drained; from then on the number of results it has output is
\* totalProcessed, one per processed source.
C12_OutputConsumesOnce ==
    /\ \A s \in Sources : printed[s] <= 1
    /\ count = Cardinality({s \in Sources : printed[s] = 1})
    /\ count <= stats.totalProcessed
    /\ outPc \in {"sendDone", "exited"} =>
          /\ EndOfStream(processedData)
          /\ count = stats.totalProcessed

\* done has been sent after a result was output for every source.
C12_Witness ==
    /\ outPc = "exited"
    /\ count = NumSources
    /\ stats.totalProcessed = NumSources

\* C13: the completion signals come in one order: fetchedData is closed when
\* every fetch goroutine has exited, workers exit when it is closed,
\* processedData is closed when every worker has exited, done is sent when
\* it is closed, Stats.Print starts after done; once Print has begun no
\* goroutine that increments a counter is left, and what it printed is the
\* final value of the counters.
C13_CompletionOrder ==
    /\ fetchedData.closed => \A s \in Sources : fetchPc[s] = "exited"
    /\ (\E w \in Workers : workerPc[w] \in {"done", "exited"}) =>
          fetchedData.closed
    /\ processedData.closed =>
          \A w \in LaunchedWorkers : workerPc[w] = "exited"
    /\ outPc \in {"sendDone", "exited"} => processedData.closed
    /\ Completed => outPc = "exited"
    /\ Completed =>
          /\ \A s \in Sources : fetchPc[s] = "exited"
          /\ \A w \in LaunchedWorkers : workerPc[w] = "exited"
    /\ mainPc = "returned" =>
          shown = <<stats.totalFetched, stats.totalProcessed, stats.errors>>

\* Print has returned in a run that fetched, processed and timed out.
C13_Witness ==
    /\ mainPc = "returned"
    /\ stats.totalProcessed > 0
    /\ stats.errors > 0
    /\ \E s \in Sources : inner[s] = "exited" /\ s \in late

-----------------------------------------------------------------------------
(* Properties of Stats under concurrent callers.                           *)

\* The caller is inside the critical section of the method it is calling.
InCS(c) == callPc[c] \notin {"idle", "lock"}

Current == <<stats.totalFetched, stats.totalProcessed, stats.errors>>

\* C14: Print reads the three fields inside one critical section: no
\* increment takes effect between its reads, so whatever it has read so far
\* is still the value of those fields, and the triple it reports is the value
\* the counters have at the instant it reports.
C14_PrintReadsOneInstant ==
    \A c \in Callers :
        callOp[c] = "Print" /\ InCS(c) =>
            /\ \A i \in 1..Len(snap[c]) : snap[c][i] = Current[i]
            /\ callPc[c] = "unlock" => snap[c] = Current
            /\ \A d \in Callers \ {c} : ~InCS(d)

\* A Print holds its complete triple, with counters above zero, while an
\* increment is waiting for the mutex.
C14_Witness ==
    \E c, d \in Callers :
        /\ callOp[c] = "Print"
        /\ callPc[c] = "unlock"
        /\ snap[c][1] + snap[c][2] + snap[c][3] > 0
        /\ callOp[d] \in Methods \ {"Print"}
        /\ callPc[d] = "lock"

\* C15: two successive Prints with no increment in between report the same
\* values.
C15_PrintIsIdempotent ==
    Len(printLog) = 2 /\ printLog[1].mutations = printLog[2].mutations =>
        printLog[1].shown = printLog[2].shown

\* Two Prints have returned, with nothing incremented between them and
\* counters above zero.
C15_Witness ==
    /\ Len(printLog) = 2
    /\ printLog[1].mutations = printLog[2].mutations
    /\ printLog[2].mutations > 0
    /\ printLog[2].shown # <<0, 0, 0>>

\* C16: the counters are written only inside critical sections of s.mu: at
\* most one caller is inside a critical section, the mutex is held exactly
\* while one is, and no increment is lost: each counter is the number of
\* calls of its method that have returned, plus the one that has written
\* and not yet returned.
C16_NoLostIncrement ==
    /\ Cardinality({c \in Callers : InCS(c)}) <= 1
    /\ mu <=> \E c \in Callers : InCS(c)
    /\ \A m \in Methods \ {"Print"} :
          stats[FieldOf(m)] =
              calls[m] + Cardinality({c \in Callers :
                                         callOp[c] = m /\ callPc[c] = "unlock"})
    /\ mutations = stats.totalFetched + stats.totalProcessed + stats.errors

\* Two callers incremented the same counter, the second having waited for
\* the mutex while the first was inside.
C16_Witness ==
    \E c, d \in Callers :
        /\ c # d
        /\ callOp[c] = "IncrementFetched"
        /\ callPc[c] = "unlock"
        /\ callOp[d] = "IncrementFetched"
        /\ callPc[d] = "lock"
        /\ stats.totalFetched >= 2

-----------------------------------------------------------------------------
(* Scenarios of the pipeline under the clock.                              *)

Launched(s) == fetchPc[s] # "unborn"

\* C17: when every fetch time is below the timeout (in the code it is
\* between 0 and 799 ms, the timeout is 1 s) no fetch times out, and the run
\* ends with fetched = N, processed = N, errors = 0 and one result output
\* per source.
C17_AllFetchedWhenFast ==
    (\A s \in Sources : latency[s] < Timeout) =>
        /\ \A s \in Sources : ~TookDeadline(s)
        /\ stats.errors = 0
        /\ Completed =>
              /\ stats.totalFetched = NumSources
              /\ stats.totalProcessed = NumSources
              /\ count = NumSources
              /\ \A s \in Sources : printed[s] = 1
        /\ mainPc = "returned" => shown = <<NumSources, NumSources, 0>>

\* The run is over; one fetch took the longest time the code can draw and
\* the clock has reached it.
C17_Witness ==
    /\ mainPc = "returned"
    /\ \A s \in Sources : latency[s] < FetchTimeBound
    /\ \E s \in Sources : latency[s] = FetchTimeBound - 1
    /\ now = FetchTimeBound - 1

\* C18: when exactly one fetch time exceeds the timeout and the others are
\* below it, the run ends with fetched = N - 1, errors = 1,
\* processed = N - 1 and N - 1 results output, none for the slow source.
C18_OneTimeout ==
    \A slow \in Sources :
        /\ Completed
        /\ latency[slow] > Timeout
        /\ \A s \in Sources \ {slow} : latency[s] < Timeout
        => /\ stats.totalFetched = NumSources - 1
           /\ stats.errors = 1
           /\ stats.totalProcessed = NumSources - 1
           /\ count = NumSources - 1
           /\ ret[slow] = "error"
           /\ \A s \in Sources :
                 printed[s] = IF s = slow THEN 0 ELSE 1
           /\ mainPc = "returned" =>
                 shown = <<NumSources - 1, NumSources - 1, 1>>

\* The run is over with one fetch slower than the timeout, which was taken
\* at the instant it was due.
C18_Witness ==
    /\ mainPc = "returned"
    /\ Cardinality({s \in Sources : latency[s] > Timeout}) = 1
    /\ \A s \in Sources : latency[s] # Timeout
    /\ stats.errors = 1
    /\ now = Timeout

-----------------------------------------------------------------------------
(* The worker pool without workers.                                        *)

-----------------------------------------------------------------------------
(* The size of the worker pool.                                            *)

\* The workers that have received an item and not yet sent its result.
Busy == {w \in Workers : job[w] # 0}

\* C21: the number of items being processed at once (received from
\* fetchedData, result not yet sent to processedData) never exceeds the
\* number of workers, also when there are more sources than workers; only
\* workers the loop has started ever hold an item.
C21_AtMostNumWorkersBusy ==
    /\ Cardinality(Busy) <= cfg.workers
    /\ Busy \subseteq LaunchedWorkers
    /\ \A w \in Workers \ LaunchedWorkers : workerPc[w] = "unborn"

\* The only worker of a pool of one holds an item while another item waits
\* in fetchedData.
C21_Witness ==
    /\ cfg.workers = 1
    /\ cfg.workers < NumSources
    /\ Cardinality(Busy) = 1
    /\ Len(fetchedData.buf) >= 1

-----------------------------------------------------------------------------
(* The shared counter.                                                     *)

AllIncrementsDone == \A g \in Incrementers : incPc[g] = "exited"

\* C22: with the mutex-protected increment the counter printed after all
\* goroutines have finished is goroutines x iterations in every
\* interleaving: no increment writes over a value it has not read, so the
\* counter always equals the increments performed. With or without the
\* mutex the counter is read only after wg.Wait has returned, when every
\* goroutine has exited.
C22_MutexCounterExact ==
    /\ useMutex =>
          /\ counter = performed
          /\ stale = 0
          /\ reported # -1 => reported = NumIncrementers * Iterations
    /\ cntMainPc \in {"report", "returned"} =>
          /\ AllIncrementsDone
          /\ counterWg = 0
          /\ performed = NumIncrementers * Iterations

\* With the mutex, the full count has been printed after two goroutines
\* contended for the lock.
C22_Witness ==
    /\ useMutex
    /\ cntMainPc = "returned"
    /\ reported = NumIncrementers * Iterations
    /\ NumIncrementers >= 2

\* C23: without the mutex the counter never exceeds the increments
\* performed, and it is strictly less exactly when some increment wrote
\* over a value it had not read: such interleavings exist (the witness),
\* and the printed counter is then less than goroutines x iterations.
C23_RaceLosesUpdates ==
    ~useMutex =>
        /\ counter <= performed
        /\ (counter < performed) <=> (stale > 0)
        /\ reported # -1 =>
              /\ reported <= NumIncrementers * Iterations
              /\ (reported < NumIncrementers * Iterations) <=> (stale > 0)

\* Without the mutex, all increments were performed and the counter printed
\* is less than their number.
C23_Witness ==
    /\ ~useMutex
    /\ cntMainPc = "returned"
    /\ performed = NumIncrementers * Iterations
    /\ reported < performed

-----------------------------------------------------------------------------
(* solution5.                                                              *)

\* C24: the total solution5 computes from the two partial sums it receives
\* is 5050 whichever goroutine sends first, and when it has received both
\* neither goroutine is still at its send: both have exited. The program
\* stops only there, never with a goroutine waiting to send.
C24_TotalIs5050 ==
    /\ s5MainPc = "returned" =>
          /\ total = 5050
          /\ {sum1, sum2} = {1275, 3775}
    /\ s5MainPc \in {"total", "returned"} =>
          \A g \in Summers : sumPc[g] = "exited"
    /\ s5MainPc = "recv2" =>
          \E g \in Summers : sumPc[g] = "exited" /\ sum1 = sum[g]
    /\ ~ENABLED SumNext =>
          /\ s5MainPc = "returned"
          /\ \A g \in Summers : sumPc[g] = "exited"

\* solution5 has returned and the goroutine started second sent first.
C24_Witness ==
    /\ s5MainPc = "returned"
    /\ sum1 = sum[2]
    /\ sum2 = sum[1]
    /\ sum1 > sum2

-----------------------------------------------------------------------------
(* solution9.                                                              *)

\* C25: the worker of solution9 detects the cancellation and stops before
\* solution9 returns: when solution9 has returned, after cancelling at 1 s
\* and sleeping a further 100 ms, the worker has observed ctx.Done and
\* returned.
C25_WorkerStopsBeforeReturn ==
    s9MainPc = "returned" => s9WorkerPc = "returned"

-----------------------------------------------------------------------------
(* demonstrateWorkerPool.                                                  *)

\* The jobs whose goroutine runs Process and has not yet sent its result.
InProgress == {j \in Jobs : poolPc[j] = "working"}

\* C26: the jobs are handled by a pool of numWorkers workers: at most
\* numWorkers jobs are in progress at any time, and each worker id processes
\* one job at a time.
C26_PoolOfNumWorkers ==
    /\ Cardinality(InProgress) <= poolNumWorkers
    /\ \A i, j \in InProgress : WorkerId(i) = WorkerId(j) => i = j

-----------------------------------------------------------------------------
(* semaphoreExample.                                                       *)

\* The tasks between acquiring the semaphore and releasing it.
Holding == {k \in Tasks : semPc[k] \in {"running", "release"}}

\* C27: at most maxConcurrent tasks are between acquiring the semaphore
\* and releasing it; the buffer of sem holds one value for each of them.
C27_AtMostMaxConcurrent ==
    /\ Cardinality(Holding) <= maxConcurrent
    /\ sem = Cardinality(Holding)

\* The semaphore is full while a further task waits to acquire it.
C27_Witness ==
    /\ Cardinality(Holding) = maxConcurrent
    /\ \E k \in Tasks : semPc[k] = "acquire"
    /\ NumTasks > maxConcurrent

SemAllDone == \A k \in Tasks : semPc[k] = "exited"

\* C28: under fair scheduling every task eventually acquires the
\* semaphore, completes and releases it, the semaphore is empty at the end,
\* and the collector receives one result per task and terminates; results
\* is closed only after all tasks are done.
C28_AllTasksComplete ==
    /\ <>[](/\ SemAllDone
            /\ sem = 0
            /\ semResults.closed
            /\ semPrinted = NumTasks
            /\ semMainPc = "returned")
    /\ [](semResults.closed \/ semCloserPc \in {"close", "exited"}
             => SemAllDone /\ semWg = 0)
    /\ [](semPrinted <= NumTasks)

\* The collector has terminated with one result per task, more tasks than
\* the semaphore admits at once.
C28_Witness ==
    /\ semMainPc = "returned"
    /\ semPrinted = NumTasks
    /\ sem = 0
    /\ SemAllDone
    /\ NumTasks > maxConcurrent

-----------------------------------------------------------------------------
(* ErrorGroup.                                                             *)

\* How often the error of f occurs in a list of errors.
Occurrences(list, f) == Cardinality({i \in 1..Len(list) : list[i] = f})

\* C29: Wait returns only after every function started with Go has
\* finished, and the list it returns holds exactly one error for each
\* function that returned an error and none for a function that returned
\* nil, also when several functions fail concurrently.
C29_WaitCollectsEveryError ==
    egMainPc = "returned" =>
        /\ \A f \in Funcs : egPc[f] = "exited"
        /\ \A f \in Funcs :
              Occurrences(egReturned, f) =
                  IF egOutcome[f] = "err" THEN 1 ELSE 0
        /\ Len(egReturned) =
              Cardinality({f \in Funcs : egOutcome[f] = "err"})
        /\ egReturned = egErrors

\* Wait has returned the errors of two functions, the one started later
\* first, and a third function returned nil.
C29_Witness ==
    /\ egMainPc = "returned"
    /\ Len(egReturned) >= 2
    /\ egReturned[1] > egReturned[2]
    /\ \E f \in Funcs : egOutcome[f] = "nil"

-----------------------------------------------------------------------------
(* contextCancellationExample.                                             *)

\* C30: after cancel() every worker eventually observes ctx.Done, sends
\* exactly one cancellation message and returns, and the launching function
\* receives one message per worker and terminates; no worker sends a
\* message before cancel, none sends more than one, and none is left
\* waiting at its send.
C30_AllWorkersCancelled ==
    /\ ctxDone ~> (/\ \A w \in CancelWorkers :
                         cwPc[w] = "returned" /\ cwSent[w] = 1
                   /\ cwReceived = numCancellable
                   /\ cwMainPc = "returned")
    /\ [](~ctxDone => \A w \in CancelWorkers :
                         cwSent[w] = 0 /\ cwPc[w] \notin {"send", "returned"})
    /\ [](\A w \in CancelWorkers : cwSent[w] <= 1)
    /\ [](cwReceived <= numCancellable)

\* The function has returned with one message from each worker; the last
\* worker was the first to send.
C30_Witness ==
    /\ cwMainPc = "returned"
    /\ cwReceived = numCancellable
    /\ \A w \in CancelWorkers : cwPc[w] = "returned" /\ cwSent[w] = 1
    /\ cwResults.buf = <<>>

-----------------------------------------------------------------------------
(* solution5: which partial sum is reported under which label.             *)

\* C36: the value solution5 reports as "Sum 1-50", the first it receives,
\* is the sum of 1..50, and the value it reports as "Sum 51-100", the
\* second it receives, is the sum of 51..100.
C36_LabelsMatchSums ==
    s5MainPc = "returned" => sum1 = 1275 /\ sum2 = 3775

-----------------------------------------------------------------------------
(* The channels of the integrated pipeline never make a sender wait.       *)

\* The fetch goroutines at fetchedData <- data, and the workers at
\* results <- result.
FetchSenders == {s \in Sources : fetchPc[s] = "send"}

WorkerSenders == {w \in Workers : workerPc[w] = "send"}

\* C37: a send on fetchedData or processedData never waits: each channel
\* has room for the items it buffers and for every item a goroutine is about
\* to send, and is open then.
C37_SendsNeverBlock ==
    /\ Len(fetchedData.buf) + Cardinality(FetchSenders) <= cfg.capacity
    /\ Len(processedData.buf) + Cardinality(WorkerSenders) <= cfg.capacity
    /\ \A s \in FetchSenders : CanSend(fetchedData) /\ ~fetchedData.closed
    /\ \A w \in WorkerSenders : CanSend(processedData) /\ ~processedData.closed

\* fetchedData holds one item less than its capacity and a fetch goroutine
\* is about to send the last.
C37_Witness ==
    /\ Len(fetchedData.buf) = cfg.capacity - 1
    /\ Len(fetchedData.buf) > 0
    /\ FetchSenders # {}

-----------------------------------------------------------------------------
(* Conservation of items in the integrated pipeline.                       *)

\* The workers that have received an item and not yet counted it.
Uncounted == {w \in Workers : workerPc[w] \in {"processedLock", "processedInc"}}

\* C38: in every state totalFetched is the number of responses held by
\* fetch goroutines that have not yet sent them, plus the items buffered in
\* fetchedData, plus the items held by workers that have not yet called
\* IncrementProcessed, plus totalProcessed; and the number of results output
\* is at most totalProcessed.
C38_ItemsConserved ==
    /\ stats.totalFetched =
          Cardinality(FetchSenders) + Len(fetchedData.buf)
          + Cardinality(Uncounted) + stats.totalProcessed
    /\ count <= stats.totalProcessed

\* One item has been processed and output while another is held by a worker
\* that has not yet counted it.
C38_Witness ==
    /\ Uncounted # {}
    /\ stats.totalProcessed = 1
    /\ count = 1
    /\ stats.totalFetched = NumSources

-----------------------------------------------------------------------------
(* contextTimeoutExample.                                                  *)

\* C31: each task returns exactly one outcome: nil when its duration is
\* shorter than the deadline of the context, the context's error when it is
\* longer; wg.Wait returns only after all tasks have returned.
C31_OneOutcomePerTask ==
    /\ \A k \in TimedTasks :
          /\ ctReturns[k] <= 1
          /\ ctReturns[k] = 1 <=> ctOutcome[k] # "none"
          /\ ctOutcome[k] # "none" =>
                ctOutcome[k] =
                    IF TaskDurations[k] < CtxTimeout THEN "nil" ELSE "err"
    /\ ctMainPc = "returned" =>
          \A k \in TimedTasks : ctPc[k] = "exited" /\ ctReturns[k] = 1

\* wg.Wait has returned after two tasks completed and one timed out, the
\* clock at the deadline.
C31_Witness ==
    /\ ctMainPc = "returned"
    /\ \E k \in TimedTasks : ctOutcome[k] = "err"
    /\ Cardinality({k \in TimedTasks : ctOutcome[k] = "nil"}) = 2
    /\ ctNow >= CtxTimeout

-----------------------------------------------------------------------------
(* fanInFanOutExample.                                                     *)

FanAllExited == \A w \in FanWorkers : fanPc[w] = "exited"

\* C32: every number of the producer is squared by exactly one worker,
\* output is closed only after all workers have exited, and in every
\* interleaving the collector terminates with the sum 385.
C32_FanInSum385 ==
    /\ <>[](/\ fanMainPc = "returned"
            /\ fanSum = 385
            /\ FanAllExited
            /\ \A n \in FanNumbers : fanSquared[n] = 1)
    /\ [](\A n \in FanNumbers : fanSquared[n] <= 1)
    /\ [](fanOutputClosed \/ fanCloserPc \in {"close", "exited"}
             => FanAllExited /\ fanWg = 0)
    /\ [](fanMainPc = "returned" => fanSum = 385)

\* The collector has terminated with the sum 385.
C32_Witness ==
    /\ fanMainPc = "returned"
    /\ fanSum = 385
    /\ FanAllExited

-----------------------------------------------------------------------------
(* workerPoolExample, solution6, pipelineExample.                          *)

WpAllExited == \A w \in WpWorkers : wpPc[w] = "exited"

\* C33: main's sends of the jobs never block, every job is taken by exactly
\* one worker, results is closed only after all workers have exited, and
\* the collector receives exactly one result per job and then terminates.
C33_WorkerPoolCompletes ==
    /\ [](wpMainPc = "send" /\ wpI <= wpNumJobs => Len(wpJobs.buf) < WpCap)
    /\ [](\A w \in WpWorkers :
             wpPc[w] = "send" => Len(wpResults.buf) < WpCap /\ ~wpResults.closed)
    /\ [](\A j \in WpJobs : wpProcessed[j] <= 1 /\ wpGot[j] <= wpProcessed[j])
    /\ [](wpResults.closed \/ wpCloserPc \in {"close", "exited"}
             => WpAllExited /\ wpWg = 0)
    /\ [](wpMainPc = "returned"
             => \A j \in WpJobs : wpProcessed[j] = 1 /\ wpGot[j] = 1)
    /\ <>[](wpMainPc = "returned" /\ WpAllExited /\ wpCloserPc = "exited")

\* The collector has terminated with one result of every job; one worker
\* took no job after job 1.
C33_Witness ==
    /\ wpMainPc = "returned"
    /\ \A j \in WpJobs : wpGot[j] = 1
    /\ \E w \in WpWorkers : wpJob[w] = 1

-----------------------------------------------------------------------------
(* demonstratePipeline, solution10.                                        *)

\* The results of the inputs 1..5 and 1..10, in input order.
PlExpected(p) ==
    IF p = "demonstratePipeline"
    THEN [i \in 1..5 |-> <<"Result: ", i * i>>]
    ELSE [i \in 1..10 |-> i * i]

\* C34: in the linear pipelines the results reach the final consumer in
\* input order, a stage closes its output only after its input is closed
\* and nothing of it is pending, and the final consumer terminates after
\* exactly one result per input.
C34_PipelineInOrder ==
    /\ [](\A p \in Pipelines :
             /\ Len(plOut[p]) <= Len(PlExpected(p))
             /\ plOut[p] = SubSeq(PlExpected(p), 1, Len(plOut[p])))
    /\ [](\A p \in Pipelines : \A k \in PlStages(p) :
             k \in plClosed[p]
                => /\ (k - 1) \in plClosed[p]
                   /\ plPc[p][k - 1] = "exited"
                   /\ plPc[p][k] = "exited")
    /\ [](\A p \in Pipelines : plMainPc[p] = "returned" => plOut[p] = PlExpected(p))
    /\ <>[](\A p \in Pipelines :
               /\ plMainPc[p] = "returned"
               /\ \A g \in PlGoroutines(p) : plPc[p][g] = "exited")

\* Both final consumers have terminated, with the squares of 1..5 and of
\* 1..10 in order.
C34_Witness ==
    /\ \A p \in Pipelines : plMainPc[p] = "returned"
    /\ plOut["solution10"] = <<1, 4, 9, 16, 25, 36, 49, 64, 81, 100>>
    /\ Len(plOut["demonstratePipeline"]) = 5
    /\ plOut["demonstratePipeline"][5] = <<"Result: ", 25>>

-----------------------------------------------------------------------------
(* demonstrateSelect, selectExample, solution7.                            *)

\* The channel of the sender with the shorter delay, then the other one.
SelExpected(p) ==
    IF p = "demonstrateSelect" THEN <<"ch2", "ch1">> ELSE <<"ch1", "ch2">>

=============================================================================
